---------------------------- MODULE Spec2Model ----------------------------
(***************************************************************************)
(* State-machine model of the DAO contracts:                               *)
(*   GovernanceToken  (src/unnamed/part_001, lines 607-776)                *)
(*   DAOGovernance    (src/contracts/DAOGovernance.sol)                    *)
(*   DAOTreasury      (src/contracts/DAOTreasury.sol)                      *)
(*                                                                         *)
(* One action per external function.  A transaction that hits a failing    *)
(* require (or a checked-arithmetic underflow) reverts and leaves the      *)
(* whole state as it was; for every function F the operator FRevert gives  *)
(* the message of the first failing require, in the order of the code, or  *)
(* NoRevert, and the action F is enabled exactly when FRevert = NoRevert.  *)
(*                                                                         *)
(* Scales.  Token amounts are counted in units of 10^18 / Ether wei and    *)
(* time in units of 86400 / Day seconds, so that the 10**18 conversion of  *)
(* vote() and the "1 days" of the constructor stay real multiplications    *)
(* while every value fits the model checker's integers.                    *)
(***************************************************************************)
EXTENDS Integers, Sequences, FiniteSets, TLC

\* ------------------------------------------------------------------ bounds
MaxProposals == 1      \* proposals created in one behaviour
MaxTicks     == 4      \* time steps taken in one behaviour
MaxBalance   == 10     \* largest balance a mint may produce (non-owner)
MaxVotesTried == 2     \* vote() is called with 0 .. MaxVotesTried votes
MaxTreasury  == 2      \* largest recorded balance a deposit may produce
MaxExecutions == 2     \* executions scheduled in one behaviour
MaxProposalsCreated == 3  \* proposals created in one behaviour of ProposalSpec
MaxLibraryInput == 12  \* library functions take arguments 0 .. MaxLibraryInput
                       \* and the values around the integer limits

\* --------------------------------------------------------------- constants
Ether == 2             \* model units per token (10**18 wei in the code)
Day   == 2             \* model time units per day (86400 s in the code)
StartTime == 4         \* block.timestamp at deployment

Null  == "null"        \* address(0)
Owner == "owner"       \* _initialOwner of token, governance and treasury
Address == {"owner", "alice", "bob", "carol"}
Callers == {"owner", "alice", "bob"}     \* accounts that send transactions
NoRevert == ""

\* unsigned integers: type(uint256).max and type(uint128).max, at a sixteenth of
\* their widths, so that Uint128Max * Uint128Max still fits a uint256
UintMax    == 65535     \* 2^16 - 1
Uint128Max == 255       \* 2^8 - 1

\* GovernanceToken constants
INITIAL_SUPPLY == 100000000 * Ether
MAX_SUPPLY     == 1000000000 * Ether

VARIABLES
    now,               \* block.timestamp
    \* GovernanceToken (ERC20 + ERC20Votes)
    balanceOf,         \* [Address -> Nat]
    allowance,         \* [Address -> Nat]: allowance(account, DAOGovernance)
    delegates,         \* [Address -> Address \cup {Null}]: ERC20Votes delegate
    \* DAOGovernance
    votingConfig,
    proposalCount,
    proposals,         \* sequence of Proposal records, index = id
    lastProposalTime,  \* [Address -> Nat]
    delegatedTo,       \* [Address -> Address \cup {Null}]
    delegatedVotes,    \* [Address -> Nat]
    paused,
    \* DAOTreasury
    tokenBalances,            \* [TreasuryTokens -> TokenBalance]
    supportedTokens,          \* sequence of token addresses
    proposalExecutions,       \* sequence of ProposalExecution, index = id
    totalProposalExecutions,
    budgetAllocations,        \* [Categories -> BudgetAllocation]
    budgetCategories,         \* sequence of category names
    treasuryManagers,         \* set of addresses mapped to true
    emergencyManagers,        \* set of addresses mapped to true
    emergencyMode,
    held,                     \* [TreasuryTokens -> Nat]: funds the contract holds
    callInProgress,           \* id of the execution whose ETH call to the recipient
                              \* is running (ReentrancyGuard entered), 0 if none
    \* VotingMechanisms (library of pure functions)
    libraryCall               \* the call of a library function: its name, its
                              \* arguments, its revert message and what it returns

tokenVars == <<balanceOf, allowance, delegates>>
govVars   == <<votingConfig, proposalCount, proposals, lastProposalTime,
               delegatedTo, delegatedVotes, paused>>
treasuryVars == <<tokenBalances, supportedTokens, proposalExecutions,
                  totalProposalExecutions, budgetAllocations, budgetCategories,
                  treasuryManagers, emergencyManagers, emergencyMode, held,
                  callInProgress>>
vars      == <<now, tokenVars, govVars, treasuryVars, libraryCall>>

\* ----------------------------------------------------------------- helpers
RECURSIVE SumOver(_, _)
SumOver(f, S) ==
    IF S = {} THEN 0
    ELSE LET x == CHOOSE y \in S : TRUE IN f[x] + SumOver(f, S \ {x})

\* ---------------------------------------------------------- GovernanceToken
\* ERC20Votes.getVotes: the balances of the accounts whose delegate is account
getVotes(account) ==
    SumOver(balanceOf, {x \in Address : delegates[x] = account})

getVotingPower(account) == getVotes(account)

totalSupply == SumOver(balanceOf, Address)

mintRevert(caller, to, amount) ==
    IF caller # Owner THEN "GovernanceToken: caller is not a minter"
    ELSE IF to = Null THEN "GovernanceToken: cannot mint to zero address"
    ELSE IF ~(totalSupply + amount <= MAX_SUPPLY)
        THEN "GovernanceToken: minting would exceed max supply"
    ELSE NoRevert

mint(caller, to, amount) ==
    /\ mintRevert(caller, to, amount) = NoRevert
    /\ balanceOf[to] + amount <= MaxBalance
    /\ balanceOf' = [balanceOf EXCEPT ![to] = @ + amount]
    /\ UNCHANGED <<now, libraryCall, allowance, delegates, govVars, treasuryVars>>

burnRevert(caller, amount) ==
    IF ~(amount > 0) THEN "GovernanceToken: burn amount must be greater than 0"
    ELSE IF ~(balanceOf[caller] >= amount)
        THEN "GovernanceToken: burn amount exceeds balance"
    ELSE NoRevert

burn(caller, amount) ==
    /\ burnRevert(caller, amount) = NoRevert
    /\ balanceOf' = [balanceOf EXCEPT ![caller] = @ - amount]
    /\ UNCHANGED <<now, libraryCall, allowance, delegates, govVars, treasuryVars>>

\* a burnFrom that checks neither balance nor allowance
burnFromRevertUnchecked(from, amount) == NoRevert

\* burnFrom as called by DAOGovernance (msg.sender = the governance contract)
burnFromRevert(from, amount) ==
    IF ~(amount > 0) THEN "GovernanceToken: burn amount must be greater than 0"
    ELSE IF ~(balanceOf[from] >= amount)
        THEN "GovernanceToken: burn amount exceeds balance"
    ELSE IF ~(allowance[from] >= amount)
        THEN "GovernanceToken: burn amount exceeds allowance"
    ELSE NoRevert

\* ERC20.approve(DAOGovernance, amount)
approve(caller, amount) ==
    /\ allowance' = [allowance EXCEPT ![caller] = amount]
    /\ UNCHANGED <<now, libraryCall, balanceOf, delegates, govVars, treasuryVars>>

\* ERC20Votes.delegate(delegatee)
tokenDelegate(caller, delegatee) ==
    /\ delegates[caller] # delegatee
    /\ delegates' = [delegates EXCEPT ![caller] = delegatee]
    /\ UNCHANGED <<now, libraryCall, balanceOf, allowance, govVars, treasuryVars>>

\* ------------------------------------------------------------ DAOGovernance
DefaultConfig ==
    [proposalThreshold |-> 1000 * Ether,
     votingDelay       |-> 1 * Day,
     votingPeriod      |-> 7 * Day,
     quorumThreshold   |-> 100000 * Ether,
     maxVotesPerWallet |-> 10000,
     proposalCooldown  |-> 1 * Day]

\* the configurations updateVotingConfig is called with
ConfigChoices ==
    { DefaultConfig,
      [proposalThreshold |-> 2, votingDelay |-> 1, votingPeriod |-> 1,
       quorumThreshold |-> 2, maxVotesPerWallet |-> 2, proposalCooldown |-> 1],
      [proposalThreshold |-> 0, votingDelay |-> 0, votingPeriod |-> 0,
       quorumThreshold |-> 0, maxVotesPerWallet |-> 1, proposalCooldown |-> 0] }

\* a proposal record that always carries the first id
NewProposalFirstId(id, proposer, title, ipfsHash, startTime, endTime) ==
    [id |-> 1, proposer |-> proposer, title |-> title, ipfsHash |-> ipfsHash,
     startTime |-> startTime, endTime |-> endTime,
     totalVotes |-> 0, totalVoters |-> 0,
     executed |-> FALSE, cancelled |-> FALSE,
     votes |-> [a \in Address |-> 0],
     hasVoted |-> [a \in Address |-> FALSE]]

NewProposal(id, proposer, title, ipfsHash, startTime, endTime) ==
    [id |-> id, proposer |-> proposer, title |-> title, ipfsHash |-> ipfsHash,
     startTime |-> startTime, endTime |-> endTime,
     totalVotes |-> 0, totalVoters |-> 0,
     executed |-> FALSE, cancelled |-> FALSE,
     votes |-> [a \in Address |-> 0],
     hasVoted |-> [a \in Address |-> FALSE]]

proposalExists(proposalId) == proposalId > 0 /\ proposalId <= proposalCount

\* a votingActive that never closes the window
votingActiveRevertNoEnd(proposalId) ==
    LET proposal == proposals[proposalId] IN
    IF ~(now >= proposal.startTime) THEN "DAOGovernance: voting not started"
    ELSE IF ~(~proposal.executed /\ ~proposal.cancelled)
        THEN "DAOGovernance: proposal not active"
    ELSE NoRevert

votingActiveRevert(proposalId) ==
    LET proposal == proposals[proposalId] IN
    IF ~(now >= proposal.startTime) THEN "DAOGovernance: voting not started"
    ELSE IF ~(now <= proposal.endTime) THEN "DAOGovernance: voting ended"
    ELSE IF ~(~proposal.executed /\ ~proposal.cancelled)
        THEN "DAOGovernance: proposal not active"
    ELSE NoRevert

\* a threshold check that also counts the power delegated in the governance
proposalPowerWithDelegated(caller) == getVotingPower(caller) + delegatedVotes[caller]

\* "Check proposal threshold": voterBalance = governanceToken.getVotingPower(msg.sender)
proposalPower(caller) == getVotingPower(caller)

\* a propose that ignores the cooldown
cooldownMetUnchecked(caller) == TRUE

\* "Check cooldown"
cooldownMet(caller) == now >= lastProposalTime[caller] + votingConfig.proposalCooldown

proposeRevert(caller, title, ipfsHash) ==
    IF paused THEN "Pausable: paused"
    ELSE IF ~(title # "") THEN "DAOGovernance: title cannot be empty"
    ELSE IF ~(ipfsHash # "") THEN "DAOGovernance: IPFS hash cannot be empty"
    ELSE IF ~(proposalPower(caller) >= votingConfig.proposalThreshold)
        THEN "DAOGovernance: insufficient tokens to propose"
    ELSE IF ~cooldownMet(caller)
        THEN "DAOGovernance: proposal cooldown not met"
    ELSE NoRevert

\* propose, explored while fewer than limit proposals exist
proposeUpTo(limit, caller, title, ipfsHash) ==
    /\ proposeRevert(caller, title, ipfsHash) = NoRevert
    /\ proposalCount < limit
    /\ LET proposalId == proposalCount + 1
           startTime  == now + votingConfig.votingDelay
           endTime    == startTime + votingConfig.votingPeriod
       IN /\ proposalCount' = proposalId
          /\ proposals' = Append(proposals,
                 NewProposal(proposalId, caller, title, ipfsHash, startTime, endTime))
    /\ lastProposalTime' = [lastProposalTime EXCEPT ![caller] = now]
    /\ UNCHANGED <<now, libraryCall, tokenVars, votingConfig, delegatedTo, delegatedVotes, paused, treasuryVars>>

propose(caller, title, ipfsHash) == proposeUpTo(MaxProposals, caller, title, ipfsHash)

\* a cost that grows with the votes, not with their square
voteCostLinear(votes) == votes

\* votes * votes, then "Convert to wei"
voteCost(votes) == votes * votes
tokensCost(votes) == voteCost(votes) * Ether

\* the power vote() compares with the cost
availableVotes(account) == getVotingPower(account) + delegatedVotes[account]

\* require(!proposal.hasVoted[msg.sender])
alreadyVotedUnchecked(proposalId, caller) == FALSE

alreadyVoted(proposalId, caller) == proposals[proposalId].hasVoted[caller]

\* "Record the vote"
proposalAfterVoteNoVoterCount(proposal, caller, votes) ==
    [proposal EXCEPT !.votes[caller] = votes,
                     !.hasVoted[caller] = TRUE,
                     !.totalVotes = @ + votes]

proposalAfterVote(proposal, caller, votes) ==
    [proposal EXCEPT !.votes[caller] = votes,
                     !.hasVoted[caller] = TRUE,
                     !.totalVotes = @ + votes,
                     !.totalVoters = @ + 1]

voteRevert(caller, proposalId, votes) ==
    IF ~proposalExists(proposalId) THEN "DAOGovernance: proposal does not exist"
    ELSE IF votingActiveRevert(proposalId) # NoRevert THEN votingActiveRevert(proposalId)
    ELSE IF paused THEN "Pausable: paused"
    ELSE IF ~(votes > 0) THEN "DAOGovernance: votes must be greater than 0"
    ELSE IF ~(votes <= votingConfig.maxVotesPerWallet)
        THEN "DAOGovernance: exceeds max votes per wallet"
    ELSE IF ~(~alreadyVoted(proposalId, caller)) THEN "DAOGovernance: already voted"
    ELSE IF ~(availableVotes(caller) >= tokensCost(votes))
        THEN "DAOGovernance: insufficient voting power"
    ELSE burnFromRevert(caller, tokensCost(votes))

vote(caller, proposalId, votes) ==
    /\ voteRevert(caller, proposalId, votes) = NoRevert
    /\ proposals' = [proposals EXCEPT ![proposalId] = proposalAfterVote(@, caller, votes)]
    \* governanceToken.burnFrom(msg.sender, tokensCost)
    /\ allowance' = [allowance EXCEPT ![caller] = @ - tokensCost(votes)]
    /\ balanceOf' = [balanceOf EXCEPT ![caller] = @ - tokensCost(votes)]
    /\ UNCHANGED <<now, libraryCall, delegates, votingConfig, proposalCount, lastProposalTime,
                   delegatedTo, delegatedVotes, paused, treasuryVars>>

\* delegatedVotes after the "Revoke previous delegation" branch of delegateVotes
\* and after the subtraction of revokeDelegation
delegatedVotesMinus(dVotes, currentDelegate, voterBalance) ==
    IF currentDelegate # Null
    THEN [dVotes EXCEPT ![currentDelegate] = @ - voterBalance]
    ELSE dVotes

\* a delegation that passes on what was delegated to the caller
delegatedVotesAfterDelegateTransitive(dTo, dVotes, caller, delegatee, voterBalance) ==
    LET revoked == delegatedVotesMinus(dVotes, dTo[caller], voterBalance)
    IN [revoked EXCEPT ![delegatee] = @ + voterBalance + dVotes[caller]]

delegatedVotesAfterDelegate(dTo, dVotes, caller, delegatee, voterBalance) ==
    LET revoked == delegatedVotesMinus(dVotes, dTo[caller], voterBalance)
    IN [revoked EXCEPT ![delegatee] = @ + voterBalance]

delegatedToAfterDelegate(dTo, caller, delegatee) ==
    [dTo EXCEPT ![caller] = delegatee]

delegateVotesRevertIn(dTo, dVotes, isPaused, caller, delegatee, voterBalance) ==
    IF isPaused THEN "Pausable: paused"
    ELSE IF ~(delegatee # Null) THEN "DAOGovernance: cannot delegate to zero address"
    ELSE IF ~(delegatee # caller) THEN "DAOGovernance: cannot delegate to self"
    ELSE IF dTo[caller] # Null /\ dVotes[dTo[caller]] < voterBalance
        THEN "panic: arithmetic underflow"
    ELSE NoRevert

delegateVotesRevert(caller, delegatee) ==
    delegateVotesRevertIn(delegatedTo, delegatedVotes, paused, caller, delegatee,
                          getVotingPower(caller))

delegateVotes(caller, delegatee) ==
    /\ delegateVotesRevert(caller, delegatee) = NoRevert
    /\ delegatedVotes' = delegatedVotesAfterDelegate(delegatedTo, delegatedVotes,
                             caller, delegatee, getVotingPower(caller))
    /\ delegatedTo' = delegatedToAfterDelegate(delegatedTo, caller, delegatee)
    /\ UNCHANGED <<now, libraryCall, tokenVars, votingConfig, proposalCount, proposals,
                   lastProposalTime, paused, treasuryVars>>

delegatedVotesAfterRevokeNoSubtract(dTo, dVotes, caller, voterBalance) == dVotes

delegatedVotesAfterRevoke(dTo, dVotes, caller, voterBalance) ==
    delegatedVotesMinus(dVotes, dTo[caller], voterBalance)

delegatedToAfterRevoke(dTo, caller) == [dTo EXCEPT ![caller] = Null]

\* a revokeDelegation without whenNotPaused
revokeDelegationRevertInPauseUnchecked(dTo, dVotes, isPaused, caller, voterBalance) ==
    IF ~(dTo[caller] # Null) THEN "DAOGovernance: no active delegation"
    ELSE IF dVotes[dTo[caller]] < voterBalance THEN "panic: arithmetic underflow"
    ELSE NoRevert

revokeDelegationRevertIn(dTo, dVotes, isPaused, caller, voterBalance) ==
    IF isPaused THEN "Pausable: paused"
    ELSE IF ~(dTo[caller] # Null) THEN "DAOGovernance: no active delegation"
    ELSE IF dVotes[dTo[caller]] < voterBalance THEN "panic: arithmetic underflow"
    ELSE NoRevert

revokeDelegationRevert(caller) ==
    revokeDelegationRevertIn(delegatedTo, delegatedVotes, paused, caller,
                             getVotingPower(caller))

revokeDelegation(caller) ==
    /\ revokeDelegationRevert(caller) = NoRevert
    /\ delegatedVotes' = delegatedVotesAfterRevoke(delegatedTo, delegatedVotes,
                             caller, getVotingPower(caller))
    /\ delegatedTo' = delegatedToAfterRevoke(delegatedTo, caller)
    /\ UNCHANGED <<now, libraryCall, tokenVars, votingConfig, proposalCount, proposals,
                   lastProposalTime, paused, treasuryVars>>

\* require(block.timestamp > proposal.endTime)
votingEndedAtEnd(proposalId) == now >= proposals[proposalId].endTime

votingEnded(proposalId) == now > proposals[proposalId].endTime

\* the configuration under which a proposal was created, read back from
\* endTime = startTime + votingConfig.votingPeriod
configAtCreation(proposalId) ==
    CHOOSE c \in ConfigChoices :
        c.votingPeriod = proposals[proposalId].endTime - proposals[proposalId].startTime

\* a quorum frozen with the proposal
quorumReachedAtCreation(proposalId) ==
    proposals[proposalId].totalVotes >= configAtCreation(proposalId).quorumThreshold

\* require(proposal.totalVotes >= votingConfig.quorumThreshold)
quorumReached(proposalId) ==
    proposals[proposalId].totalVotes >= votingConfig.quorumThreshold

executeProposalRevert(caller, proposalId) ==
    IF ~proposalExists(proposalId) THEN "DAOGovernance: proposal does not exist"
    ELSE IF caller # Owner THEN "Ownable: caller is not the owner"
    ELSE IF ~votingEnded(proposalId) THEN "DAOGovernance: voting still active"
    ELSE IF ~(~proposals[proposalId].executed)
        THEN "DAOGovernance: proposal already executed"
    ELSE IF ~(~proposals[proposalId].cancelled) THEN "DAOGovernance: proposal cancelled"
    ELSE IF ~quorumReached(proposalId)
        THEN "DAOGovernance: quorum not met"
    ELSE NoRevert

executeProposal(caller, proposalId) ==
    /\ executeProposalRevert(caller, proposalId) = NoRevert
    /\ proposals' = [proposals EXCEPT ![proposalId].executed = TRUE]
    /\ UNCHANGED <<now, libraryCall, tokenVars, votingConfig, proposalCount, lastProposalTime,
                   delegatedTo, delegatedVotes, paused, treasuryVars>>

\* a cancel open to every caller
canCancelAnyone(caller, proposalId) == TRUE

\* msg.sender == proposal.proposer || msg.sender == owner()
canCancel(caller, proposalId) ==
    caller = proposals[proposalId].proposer \/ caller = Owner

cancelProposalRevertExecutedUnchecked(caller, proposalId) ==
    IF ~proposalExists(proposalId) THEN "DAOGovernance: proposal does not exist"
    ELSE IF ~canCancel(caller, proposalId)
        THEN "DAOGovernance: only proposer or owner can cancel"
    ELSE IF ~(~proposals[proposalId].cancelled)
        THEN "DAOGovernance: proposal already cancelled"
    ELSE NoRevert

cancelProposalRevert(caller, proposalId) ==
    IF ~proposalExists(proposalId) THEN "DAOGovernance: proposal does not exist"
    ELSE IF ~canCancel(caller, proposalId)
        THEN "DAOGovernance: only proposer or owner can cancel"
    ELSE IF ~(~proposals[proposalId].executed)
        THEN "DAOGovernance: cannot cancel executed proposal"
    ELSE IF ~(~proposals[proposalId].cancelled)
        THEN "DAOGovernance: proposal already cancelled"
    ELSE NoRevert

cancelProposal(caller, proposalId) ==
    /\ cancelProposalRevert(caller, proposalId) = NoRevert
    /\ proposals' = [proposals EXCEPT ![proposalId].cancelled = TRUE]
    /\ UNCHANGED <<now, libraryCall, tokenVars, votingConfig, proposalCount, lastProposalTime,
                   delegatedTo, delegatedVotes, paused, treasuryVars>>

updateVotingConfig(caller, config) ==
    /\ caller = Owner
    /\ config # votingConfig
    /\ votingConfig' = config
    /\ UNCHANGED <<now, libraryCall, tokenVars, proposalCount, proposals, lastProposalTime,
                   delegatedTo, delegatedVotes, paused, treasuryVars>>

pause(caller) ==
    /\ caller = Owner
    /\ ~paused
    /\ paused' = TRUE
    /\ UNCHANGED <<now, libraryCall, tokenVars, votingConfig, proposalCount, proposals,
                   lastProposalTime, delegatedTo, delegatedVotes, treasuryVars>>

unpause(caller) ==
    /\ caller = Owner
    /\ paused
    /\ paused' = FALSE
    /\ UNCHANGED <<now, libraryCall, tokenVars, votingConfig, proposalCount, proposals,
                   lastProposalTime, delegatedTo, delegatedVotes, treasuryVars>>

\* -------------------------------------------------------------- DAOTreasury
ETH  == Null           \* address(0) stands for ETH
Usdc == "usdc"         \* an ERC20 token the owner may add
TreasuryTokens == {ETH, Usdc}
DAO  == "dao"          \* address(daoGovernance)
Categories == {"dev"}

\* What the external transfer does: "ok" moves the funds, "fail" makes the
\* callee revert, "mismatch" is an ERC20 that returns without moving the amount.
TransferOutcomes == {"ok", "fail", "mismatch"}

NoTokenBalance == [token |-> Null, balance |-> 0, allocated |-> 0, available |-> 0]
NoBudget == [category |-> "", token |-> Null, totalBudget |-> 0, spentAmount |-> 0,
             remainingBudget |-> 0, active |-> FALSE]

isTreasuryManager(caller) == caller \in treasuryManagers \/ caller = Owner
isEmergencyManager(caller) == caller \in emergencyManagers \/ caller = Owner
tokenSupported(token) == tokenBalances[token].token # Null \/ token = ETH

\* msg.sender: any account between transactions; while the ETH call of an
\* execution runs, only the code of its recipient runs and calls back.
canSend(caller) ==
    IF callInProgress = 0 THEN TRUE
    ELSE caller = proposalExecutions[callInProgress].recipient

\* ReentrancyGuard.nonReentrant: _status == ENTERED
reentrantCall == callInProgress # 0

addSupportedTokenRevert(caller, token) ==
    IF caller # Owner THEN "Ownable: caller is not the owner"
    ELSE IF ~(token # Null) THEN "DAOTreasury: token cannot be zero address"
    ELSE IF ~(tokenBalances[token].token = Null) THEN "DAOTreasury: token already supported"
    ELSE NoRevert

addSupportedToken(caller, token) ==
    /\ addSupportedTokenRevert(caller, token) = NoRevert
    /\ canSend(caller)
    /\ tokenBalances' = [tokenBalances EXCEPT ![token] =
           [token |-> token, balance |-> 0, allocated |-> 0, available |-> 0]]
    /\ supportedTokens' = Append(supportedTokens, token)
    /\ UNCHANGED <<now, libraryCall, tokenVars, govVars, callInProgress, proposalExecutions, totalProposalExecutions,
                   budgetAllocations, budgetCategories, treasuryManagers,
                   emergencyManagers, emergencyMode, held>>

tokenBalanceAfterDeposit(tb, amount) ==
    [tb EXCEPT !.balance = @ + amount, !.available = @ + amount]

depositETHRevert(value) ==
    IF emergencyMode THEN "DAOTreasury: emergency mode active"
    ELSE IF ~(value > 0) THEN "DAOTreasury: deposit amount must be greater than 0"
    ELSE NoRevert

depositETH(caller, value) ==
    /\ depositETHRevert(value) = NoRevert
    /\ canSend(caller)
    /\ tokenBalances[ETH].balance + value <= MaxTreasury
    /\ tokenBalances' = [tokenBalances EXCEPT ![ETH] = tokenBalanceAfterDeposit(@, value)]
    /\ held' = [held EXCEPT ![ETH] = @ + value]
    /\ UNCHANGED <<now, libraryCall, tokenVars, govVars, callInProgress, supportedTokens, proposalExecutions,
                   totalProposalExecutions, budgetAllocations, budgetCategories,
                   treasuryManagers, emergencyManagers, emergencyMode>>

\* receive(): a plain ETH transfer to the treasury
receiveRevert(value) ==
    IF ~(value > 0) THEN "DAOTreasury: deposit amount must be greater than 0"
    ELSE IF ~(~emergencyMode) THEN "DAOTreasury: emergency mode active"
    ELSE NoRevert

receive(caller, value) ==
    /\ receiveRevert(value) = NoRevert
    /\ canSend(caller)
    /\ tokenBalances[ETH].balance + value <= MaxTreasury
    /\ tokenBalances' = [tokenBalances EXCEPT ![ETH] = tokenBalanceAfterDeposit(@, value)]
    /\ held' = [held EXCEPT ![ETH] = @ + value]
    /\ UNCHANGED <<now, libraryCall, tokenVars, govVars, callInProgress, supportedTokens, proposalExecutions,
                   totalProposalExecutions, budgetAllocations, budgetCategories,
                   treasuryManagers, emergencyManagers, emergencyMode>>

depositTokenRevert(token, amount, outcome) ==
    IF emergencyMode THEN "DAOTreasury: emergency mode active"
    ELSE IF ~(token # Null) THEN "DAOTreasury: token cannot be zero address"
    ELSE IF ~(amount > 0) THEN "DAOTreasury: deposit amount must be greater than 0"
    ELSE IF ~(tokenBalances[token].token # Null) THEN "DAOTreasury: token not supported"
    ELSE IF outcome # "ok" THEN "SafeERC20: transferFrom failed"
    ELSE NoRevert

depositToken(caller, token, amount, outcome) ==
    /\ depositTokenRevert(token, amount, outcome) = NoRevert
    /\ canSend(caller)
    /\ tokenBalances[token].balance + amount <= MaxTreasury
    /\ held' = [held EXCEPT ![token] = @ + amount]
    /\ tokenBalances' = [tokenBalances EXCEPT ![token] = tokenBalanceAfterDeposit(@, amount)]
    /\ UNCHANGED <<now, libraryCall, tokenVars, govVars, callInProgress, supportedTokens, proposalExecutions,
                   totalProposalExecutions, budgetAllocations, budgetCategories,
                   treasuryManagers, emergencyManagers, emergencyMode>>

\* an allocation that does not take the amount out of available
tokenBalanceAfterAllocateAvailableKept(tb, amount) ==
    [tb EXCEPT !.allocated = @ + amount]

\* "Allocate funds"
tokenBalanceAfterAllocate(tb, amount) ==
    [tb EXCEPT !.allocated = @ + amount, !.available = @ - amount]

scheduleProposalExecutionRevert(caller, proposalId, recipient, token, amount) ==
    IF ~(caller = DAO) THEN "DAOTreasury: only DAO can call"
    ELSE IF emergencyMode THEN "DAOTreasury: emergency mode active"
    ELSE IF ~(recipient # Null) THEN "DAOTreasury: recipient cannot be zero address"
    ELSE IF ~(amount > 0) THEN "DAOTreasury: amount must be greater than 0"
    ELSE IF ~tokenSupported(token) THEN "DAOTreasury: token not supported"
    ELSE IF ~(tokenBalances[token].available >= amount)
        THEN "DAOTreasury: insufficient available funds"
    ELSE NoRevert

scheduleProposalExecution(caller, proposalId, recipient, token, amount, data) ==
    /\ scheduleProposalExecutionRevert(caller, proposalId, recipient, token, amount) = NoRevert
    /\ canSend(caller)
    /\ totalProposalExecutions < MaxExecutions
    /\ tokenBalances' = [tokenBalances EXCEPT ![token] = tokenBalanceAfterAllocate(@, amount)]
    /\ totalProposalExecutions' = totalProposalExecutions + 1
    /\ proposalExecutions' = Append(proposalExecutions,
           [proposalId |-> proposalId, recipient |-> recipient, token |-> token,
            amount |-> amount, data |-> data, executed |-> FALSE, executionTime |-> 0])
    /\ UNCHANGED <<now, libraryCall, tokenVars, govVars, callInProgress, supportedTokens, budgetAllocations,
                   budgetCategories, treasuryManagers, emergencyManagers,
                   emergencyMode, held>>

\* a decrement of the balance that leaves allocated as it is
tokenBalanceAfterDebitAllocatedKept(tb, amount) ==
    [tb EXCEPT !.balance = @ - amount]

\* balance and allocated after the decrement that precedes the transfer
tokenBalanceAfterDebit(tb, amount) ==
    [tb EXCEPT !.balance = @ - amount, !.allocated = @ - amount]

\* "Revert allocation if transfer failed"
tokenBalanceAfterFailedTransferBalanceOnly(tb, amount) ==
    [tb EXCEPT !.balance = @ + amount]

tokenBalanceAfterFailedTransfer(tb, amount) ==
    [tb EXCEPT !.balance = @ + amount, !.allocated = @ + amount]

\* the success flag of DAOTreasury.executeProposal
transferSuccess(token, amount, outcome) ==
    IF token = ETH THEN outcome = "ok" /\ held[ETH] >= amount
    ELSE outcome = "ok"      \* (balanceBefore - balanceAfter) == amount

\* SafeERC20.safeTransfer reverts when the token does
safeTransferReverts(token, amount, outcome) ==
    token # ETH /\ (outcome = "fail" \/ (outcome = "ok" /\ held[token] < amount))

\* executeProposal without its require(!execution.executed, ...)
alreadyExecutedUnchecked(executionId) == FALSE

\* require(!execution.executed, ...)
alreadyExecuted(executionId) == proposalExecutions[executionId].executed

\* executeProposal without its require(proposalExecuted, ...)
proposalExecutedInGovernanceUnchecked(proposalId) == TRUE

\* require(proposalExecuted, ...) on the 9th value of daoGovernance.getProposal
proposalExecutedInGovernance(proposalId) == proposals[proposalId].executed

treasuryExecuteProposalRevert(caller, executionId, outcome) ==
    IF ~isTreasuryManager(caller) THEN "DAOTreasury: not treasury manager"
    ELSE IF reentrantCall THEN "ReentrancyGuard: reentrant call"
    ELSE IF emergencyMode THEN "DAOTreasury: emergency mode active"
    ELSE IF ~(executionId > 0 /\ executionId <= totalProposalExecutions)
        THEN "DAOTreasury: invalid execution ID"
    ELSE IF ~(~alreadyExecuted(executionId)) THEN "DAOTreasury: already executed"
    ELSE IF ~proposalExists(proposalExecutions[executionId].proposalId)
        THEN "DAOGovernance: proposal does not exist"
    ELSE IF ~proposalExecutedInGovernance(proposalExecutions[executionId].proposalId)
        THEN "DAOTreasury: proposal not executed in governance"
    ELSE LET execution == proposalExecutions[executionId]
             tokenBalance == tokenBalances[execution.token]
         IN IF tokenBalance.balance < execution.amount \/ tokenBalance.allocated < execution.amount
                THEN "panic: arithmetic underflow"
            ELSE IF safeTransferReverts(execution.token, execution.amount, outcome)
                THEN "SafeERC20: transfer failed"
            ELSE NoRevert

\* a failed transfer that releases the amount to available
tokenBalancesAfterExecuteReleasing(executionId, outcome) ==
    LET execution == proposalExecutions[executionId]
        debited == tokenBalanceAfterDebit(tokenBalances[execution.token], execution.amount)
    IN [tokenBalances EXCEPT ![execution.token] =
           IF transferSuccess(execution.token, execution.amount, outcome) THEN debited
           ELSE [debited EXCEPT !.balance = @ + execution.amount,
                                !.available = @ + execution.amount]]

\* tokenBalances when executeProposal(executionId) returns
tokenBalancesAfterExecute(executionId, outcome) ==
    LET execution == proposalExecutions[executionId]
        debited == tokenBalanceAfterDebit(tokenBalances[execution.token], execution.amount)
    IN [tokenBalances EXCEPT ![execution.token] =
           IF transferSuccess(execution.token, execution.amount, outcome) THEN debited
           ELSE tokenBalanceAfterFailedTransfer(debited, execution.amount)]

\* the execution record if the flags were not reset after a failed transfer
executionAfterExecuteFlagsKept(execution, success) ==
    [execution EXCEPT !.executed = TRUE, !.executionTime = now]

\* the execution record when executeProposal(executionId) returns: executed and
\* executionTime are set before the transfer and reset "if (!success)"
executionAfterExecute(execution, success) ==
    [execution EXCEPT !.executed = success,
                      !.executionTime = IF success THEN now ELSE 0]

proposalExecutionsAfterExecute(executionId, outcome) ==
    LET execution == proposalExecutions[executionId]
    IN [proposalExecutions EXCEPT ![executionId] =
           executionAfterExecute(execution,
               transferSuccess(execution.token, execution.amount, outcome))]

\* A failed transfer is compensated (or reverts) within the step.  A successful
\* ETH transfer hands control to the recipient: the flags and the debit are
\* already written, the funds have moved, and the guard stays entered until
\* the call returns.
treasuryExecuteProposal(caller, executionId, outcome) ==
    /\ treasuryExecuteProposalRevert(caller, executionId, outcome) = NoRevert
    /\ canSend(caller)
    /\ LET execution == proposalExecutions[executionId]
           success == transferSuccess(execution.token, execution.amount, outcome)
       IN /\ tokenBalances' = tokenBalancesAfterExecute(executionId, outcome)
          /\ proposalExecutions' = proposalExecutionsAfterExecute(executionId, outcome)
          /\ held' = IF success
                     THEN [held EXCEPT ![execution.token] = @ - execution.amount]
                     ELSE held
          /\ callInProgress' = IF success /\ execution.token = ETH THEN executionId ELSE 0
    /\ UNCHANGED <<now, libraryCall, tokenVars, govVars, supportedTokens, totalProposalExecutions,
                   budgetAllocations, budgetCategories, treasuryManagers,
                   emergencyManagers, emergencyMode>>

\* the recipient's code returns: executeProposal emits its event and leaves the guard
callReturns ==
    /\ callInProgress # 0
    /\ callInProgress' = 0
    /\ UNCHANGED <<now, libraryCall, tokenVars, govVars, tokenBalances, supportedTokens,
                   proposalExecutions, totalProposalExecutions, budgetAllocations,
                   budgetCategories, treasuryManagers, emergencyManagers,
                   emergencyMode, held>>

\* a new budget that is not marked active
NewBudgetAllocationInactive(category, token, amount) ==
    [category |-> category, token |-> token, totalBudget |-> amount,
     spentAmount |-> 0, remainingBudget |-> amount, active |-> FALSE]

\* budgetAllocations[category] = BudgetAllocation({...})
NewBudgetAllocation(category, token, amount) ==
    [category |-> category, token |-> token, totalBudget |-> amount,
     spentAmount |-> 0, remainingBudget |-> amount, active |-> TRUE]

createBudgetAllocationRevert(caller, category, token, amount) ==
    IF ~isTreasuryManager(caller) THEN "DAOTreasury: not treasury manager"
    ELSE IF emergencyMode THEN "DAOTreasury: emergency mode active"
    ELSE IF ~(category # "") THEN "DAOTreasury: category cannot be empty"
    ELSE IF ~(amount > 0) THEN "DAOTreasury: budget amount must be greater than 0"
    ELSE IF ~tokenSupported(token) THEN "DAOTreasury: token not supported"
    ELSE IF ~(~budgetAllocations[category].active)
        THEN "DAOTreasury: budget category already exists"
    ELSE IF ~(tokenBalances[token].available >= amount)
        THEN "DAOTreasury: insufficient available funds"
    ELSE NoRevert

createBudgetAllocation(caller, category, token, amount) ==
    /\ createBudgetAllocationRevert(caller, category, token, amount) = NoRevert
    /\ canSend(caller)
    /\ tokenBalances' = [tokenBalances EXCEPT ![token] = tokenBalanceAfterAllocate(@, amount)]
    /\ budgetAllocations' = [budgetAllocations EXCEPT ![category] =
           NewBudgetAllocation(category, token, amount)]
    /\ budgetCategories' = Append(budgetCategories, category)
    /\ UNCHANGED <<now, libraryCall, tokenVars, govVars, callInProgress, supportedTokens, proposalExecutions,
                   totalProposalExecutions, treasuryManagers, emergencyManagers,
                   emergencyMode, held>>

\* a spend that does not lower remainingBudget
budgetAfterSpendRemainingKept(budget, amount) ==
    [budget EXCEPT !.spentAmount = @ + amount]

budgetAfterSpend(budget, amount) ==
    [budget EXCEPT !.spentAmount = @ + amount, !.remainingBudget = @ - amount]

spendFromBudgetRevert(caller, category, recipient, amount, outcome) ==
    IF ~isTreasuryManager(caller) THEN "DAOTreasury: not treasury manager"
    ELSE IF reentrantCall THEN "ReentrancyGuard: reentrant call"
    ELSE IF emergencyMode THEN "DAOTreasury: emergency mode active"
    ELSE IF ~(recipient # Null) THEN "DAOTreasury: recipient cannot be zero address"
    ELSE IF ~(amount > 0) THEN "DAOTreasury: spend amount must be greater than 0"
    ELSE IF ~budgetAllocations[category].active THEN "DAOTreasury: budget category not active"
    ELSE IF ~(budgetAllocations[category].remainingBudget >= amount)
        THEN "DAOTreasury: insufficient budget remaining"
    ELSE LET token == budgetAllocations[category].token IN
         IF tokenBalances[token].balance < amount \/ tokenBalances[token].allocated < amount
             THEN "panic: arithmetic underflow"
         ELSE IF token = ETH /\ ~(outcome = "ok" /\ held[ETH] >= amount)
             THEN "DAOTreasury: ETH transfer failed"
         ELSE IF safeTransferReverts(token, amount, outcome)
             THEN "SafeERC20: transfer failed"
         ELSE NoRevert

spendFromBudget(caller, category, recipient, amount, outcome) ==
    /\ spendFromBudgetRevert(caller, category, recipient, amount, outcome) = NoRevert
    /\ canSend(caller)
    /\ LET token == budgetAllocations[category].token IN
       /\ budgetAllocations' = [budgetAllocations EXCEPT ![category] = budgetAfterSpend(@, amount)]
       /\ tokenBalances' = [tokenBalances EXCEPT ![token] = tokenBalanceAfterDebit(@, amount)]
       /\ held' = IF outcome = "ok" THEN [held EXCEPT ![token] = @ - amount] ELSE held
    /\ UNCHANGED <<now, libraryCall, tokenVars, govVars, callInProgress, supportedTokens, proposalExecutions,
                   totalProposalExecutions, budgetCategories, treasuryManagers,
                   emergencyManagers, emergencyMode>>

treasuryAddTreasuryManager(caller, manager) ==
    /\ caller = Owner
    /\ canSend(caller)
    /\ manager # Null
    /\ manager \notin treasuryManagers
    /\ treasuryManagers' = treasuryManagers \cup {manager}
    /\ UNCHANGED <<now, libraryCall, tokenVars, govVars, callInProgress, tokenBalances, supportedTokens,
                   proposalExecutions, totalProposalExecutions, budgetAllocations,
                   budgetCategories, emergencyManagers, emergencyMode, held>>

treasuryRemoveTreasuryManager(caller, manager) ==
    /\ caller = Owner
    /\ canSend(caller)
    /\ manager \in treasuryManagers
    /\ treasuryManagers' = treasuryManagers \ {manager}
    /\ UNCHANGED <<now, libraryCall, tokenVars, govVars, callInProgress, tokenBalances, supportedTokens,
                   proposalExecutions, totalProposalExecutions, budgetAllocations,
                   budgetCategories, emergencyManagers, emergencyMode, held>>

addEmergencyManager(caller, manager) ==
    /\ caller = Owner
    /\ canSend(caller)
    /\ manager # Null
    /\ manager \notin emergencyManagers
    /\ emergencyManagers' = emergencyManagers \cup {manager}
    /\ UNCHANGED <<now, libraryCall, tokenVars, govVars, callInProgress, tokenBalances, supportedTokens,
                   proposalExecutions, totalProposalExecutions, budgetAllocations,
                   budgetCategories, treasuryManagers, emergencyMode, held>>

removeEmergencyManager(caller, manager) ==
    /\ caller = Owner
    /\ canSend(caller)
    /\ manager \in emergencyManagers
    /\ emergencyManagers' = emergencyManagers \ {manager}
    /\ UNCHANGED <<now, libraryCall, tokenVars, govVars, callInProgress, tokenBalances, supportedTokens,
                   proposalExecutions, totalProposalExecutions, budgetAllocations,
                   budgetCategories, treasuryManagers, emergencyMode, held>>

toggleEmergencyMode(caller) ==
    /\ isEmergencyManager(caller)
    /\ canSend(caller)
    /\ emergencyMode' = ~emergencyMode
    /\ UNCHANGED <<now, libraryCall, tokenVars, govVars, callInProgress, tokenBalances, supportedTokens,
                   proposalExecutions, totalProposalExecutions, budgetAllocations,
                   budgetCategories, treasuryManagers, emergencyManagers, held>>

emergencyWithdrawRevert(caller, token, to, amount, outcome) ==
    IF ~isEmergencyManager(caller) THEN "DAOTreasury: not emergency manager"
    ELSE IF ~emergencyMode THEN "DAOTreasury: not in emergency mode"
    ELSE IF ~(to # Null) THEN "DAOTreasury: recipient cannot be zero address"
    ELSE IF ~(amount > 0) THEN "DAOTreasury: amount must be greater than 0"
    ELSE IF token = ETH /\ ~(held[ETH] >= amount) THEN "DAOTreasury: insufficient ETH balance"
    ELSE IF token = ETH /\ outcome # "ok" THEN "transfer failed"
    ELSE IF safeTransferReverts(token, amount, outcome) THEN "SafeERC20: transfer failed"
    ELSE NoRevert

emergencyWithdraw(caller, token, to, amount, outcome) ==
    /\ emergencyWithdrawRevert(caller, token, to, amount, outcome) = NoRevert
    /\ canSend(caller)
    /\ held' = IF outcome = "ok" THEN [held EXCEPT ![token] = @ - amount] ELSE held
    /\ UNCHANGED <<now, libraryCall, tokenVars, govVars, callInProgress, tokenBalances, supportedTokens,
                   proposalExecutions, totalProposalExecutions, budgetAllocations,
                   budgetCategories, treasuryManagers, emergencyManagers, emergencyMode>>

\* ---------------------------------------------------------- VotingMechanisms
\* Math.sqrt of OpenZeppelin: the square root rounded down
sqrt(a) == CHOOSE n \in 0..Uint128Max : n * n <= a /\ (n + 1) * (n + 1) > a

calculateQuadraticCostRevert(votes) ==
    IF ~(votes > 0) THEN "VotingMechanisms: votes must be greater than 0"
    ELSE IF ~(votes <= Uint128Max) THEN "VotingMechanisms: votes too large"
    ELSE NoRevert

\* a cost of twice the votes
calculateQuadraticCostDouble(votes) == votes + votes

calculateQuadraticCost(votes) == votes * votes

calculateMaxVotes(tokenBalance) ==
    IF tokenBalance = 0 THEN 0 ELSE sqrt(tokenBalance)

calculateSybilResistanceScoreRevert(totalVoters, totalTokensSpent, maxTokensPerVoter) ==
    IF totalVoters = 0 \/ totalTokensSpent = 0 THEN NoRevert
    ELSE IF maxTokensPerVoter * 100 > UintMax THEN "panic: arithmetic overflow"
    ELSE IF totalTokensSpent \div totalVoters = 0 THEN "panic: division by zero"
    ELSE NoRevert

calculateSybilResistanceScore(totalVoters, totalTokensSpent, maxTokensPerVoter) ==
    IF totalVoters = 0 \/ totalTokensSpent = 0 THEN 0
    ELSE LET avgTokensPerVoter == totalTokensSpent \div totalVoters
             concentrationRatio == (maxTokensPerVoter * 100) \div avgTokensPerVoter
         IN IF concentrationRatio <= 100 THEN 100
            ELSE IF concentrationRatio <= 200 THEN 200 - concentrationRatio
            ELSE 0

validateVoteRevert(votes, maxVotesPerWallet, tokenBalance) ==
    IF votes = 0 THEN NoRevert
    ELSE IF votes > maxVotesPerWallet THEN NoRevert
    ELSE calculateQuadraticCostRevert(votes)

\* <<valid, cost>>
validateVote(votes, maxVotesPerWallet, tokenBalance) ==
    IF votes = 0 THEN <<FALSE, 0>>
    ELSE IF votes > maxVotesPerWallet THEN <<FALSE, 0>>
    ELSE LET cost == calculateQuadraticCost(votes)
         IN <<cost <= tokenBalance, cost>>

\* optimalVotes before the cost is computed
optimalVotesCapped(tokenBudget, maxVotesPerWallet) ==
    IF calculateMaxVotes(tokenBudget) > maxVotesPerWallet
    THEN maxVotesPerWallet
    ELSE calculateMaxVotes(tokenBudget)

calculateOptimalVotesRevert(tokenBudget, maxVotesPerWallet) ==
    IF tokenBudget = 0 THEN NoRevert
    ELSE calculateQuadraticCostRevert(optimalVotesCapped(tokenBudget, maxVotesPerWallet))

\* <<optimalVotes, remainingTokens>>
calculateOptimalVotes(tokenBudget, maxVotesPerWallet) ==
    IF tokenBudget = 0 THEN <<0, 0>>
    ELSE LET optimalVotes == optimalVotesCapped(tokenBudget, maxVotesPerWallet)
             cost == calculateQuadraticCost(optimalVotes)
         IN <<optimalVotes, tokenBudget - cost>>

\* no library function has been called with the arguments yet
NoLibraryCall(args) ==
    [fn |-> "none", args |-> args, revert |-> NoRevert, result |-> <<>>]

\* a function is called with the arguments and reverts or returns
libraryCalls(fn, revert, result) ==
    /\ libraryCall.fn = "none"
    /\ libraryCall' = [fn |-> fn, args |-> libraryCall.args, revert |-> revert,
                       result |-> IF revert = NoRevert THEN result ELSE <<>>]
    /\ UNCHANGED <<now, tokenVars, govVars, treasuryVars>>

callCalculateQuadraticCost ==
    LET votes == libraryCall.args[1] IN
    libraryCalls("calculateQuadraticCost", calculateQuadraticCostRevert(votes),
                 IF calculateQuadraticCostRevert(votes) = NoRevert
                 THEN <<calculateQuadraticCost(votes)>> ELSE <<>>)

callCalculateSybilResistanceScore ==
    LET a == libraryCall.args IN
    libraryCalls("calculateSybilResistanceScore",
                 calculateSybilResistanceScoreRevert(a[1], a[2], a[3]),
                 IF calculateSybilResistanceScoreRevert(a[1], a[2], a[3]) = NoRevert
                 THEN <<calculateSybilResistanceScore(a[1], a[2], a[3])>> ELSE <<>>)

callValidateVote ==
    LET a == libraryCall.args IN
    libraryCalls("validateVote", validateVoteRevert(a[1], a[2], a[3]),
                 IF validateVoteRevert(a[1], a[2], a[3]) = NoRevert
                 THEN validateVote(a[1], a[2], a[3]) ELSE <<>>)

callCalculateOptimalVotes ==
    LET a == libraryCall.args IN
    libraryCalls("calculateOptimalVotes", calculateOptimalVotesRevert(a[1], a[2]),
                 IF calculateOptimalVotesRevert(a[1], a[2]) = NoRevert
                 THEN calculateOptimalVotes(a[1], a[2]) ELSE <<>>)

\* a later block is mined: block.timestamp grows, up to the time limit
TickUntil(limit) ==
    /\ now < limit
    /\ now' = now + 1
    /\ UNCHANGED <<libraryCall, tokenVars, govVars, treasuryVars>>

Tick == TickUntil(StartTime + MaxTicks)

\* ------------------------------------------------------------ specification
Init ==
    /\ now = StartTime
    /\ balanceOf = [a \in Address |-> IF a = Owner THEN INITIAL_SUPPLY ELSE 0]
    /\ allowance = [a \in Address |-> 0]
    /\ delegates = [a \in Address |-> Null]
    /\ votingConfig = DefaultConfig
    /\ proposalCount = 0
    /\ proposals = <<>>
    /\ lastProposalTime = [a \in Address |-> 0]
    /\ delegatedTo = [a \in Address |-> Null]
    /\ delegatedVotes = [a \in Address |-> 0]
    /\ paused = FALSE
    /\ tokenBalances = [t \in TreasuryTokens |-> NoTokenBalance]
    /\ supportedTokens = <<ETH>>
    /\ proposalExecutions = <<>>
    /\ totalProposalExecutions = 0
    /\ budgetAllocations = [c \in Categories |-> NoBudget]
    /\ budgetCategories = <<>>
    /\ treasuryManagers = {}
    /\ emergencyManagers = {}
    /\ emergencyMode = FALSE
    /\ held = [t \in TreasuryTokens |-> 0]
    /\ callInProgress = 0
    /\ libraryCall = NoLibraryCall(<<0, 0, 0>>)

\* Governance: the proposal lifecycle and the vote ledger.
Next ==
    \/ Tick
    \/ \E to \in Callers \ {Owner} : mint(Owner, to, 4 * Ether)
    \/ \E a \in Callers : tokenDelegate(a, a)
    \/ \E a \in Callers \ {Owner} : approve(a, 4 * Ether)
    \/ \E a \in Callers : propose(a, "T", "Qm")
    \/ \E a \in Callers, p \in 1..MaxProposals, v \in 0..MaxVotesTried : vote(a, p, v)
    \/ \E a \in Callers, p \in 1..MaxProposals : executeProposal(a, p)
    \/ \E a \in Callers, p \in 1..MaxProposals : cancelProposal(a, p)
    \/ \E c \in ConfigChoices : updateVotingConfig(Owner, c)

Spec == Init /\ [][Next]_vars

\* Governance: delegation and the power check of vote().
DelegationNext ==
    \/ TickUntil(StartTime + Day)
    \/ \E to \in Callers \ {Owner} : mint(Owner, to, 4 * Ether)
    \/ \E a \in Callers : tokenDelegate(a, a)
    \/ \E a \in Callers \ {Owner} : approve(a, 4 * Ether)
    \/ propose(Owner, "T", "Qm")
    \/ \E a \in Callers \ {Owner}, v \in 0..MaxVotesTried : vote(a, 1, v)
    \/ \E a \in Callers, d \in Callers : delegateVotes(a, d)
    \/ \E a \in Callers : revokeDelegation(a)

DelegationSpec == Init /\ [][DelegationNext]_vars

\* The DAOTreasury contract with the part of governance it reads, against
\* every caller its modifiers admit: the owner, a treasury manager, any
\* depositor, and address(daoGovernance) as the caller of
\* scheduleProposalExecution.
ZeroConfig ==
    [proposalThreshold |-> 0, votingDelay |-> 0, votingPeriod |-> 0,
     quorumThreshold |-> 0, maxVotesPerWallet |-> 1, proposalCooldown |-> 0]

TreasuryNext ==
    \/ callInProgress = 0 /\ TickUntil(StartTime + 1)
    \/ callInProgress = 0 /\ updateVotingConfig(Owner, ZeroConfig)
    \/ canSend("alice") /\ propose("alice", "T", "Qm")
    \/ callInProgress = 0 /\ executeProposal(Owner, 1)
    \/ canSend("alice") /\ cancelProposal("alice", 1)
    \/ addSupportedToken(Owner, Usdc)
    \/ \E v \in 1..MaxTreasury : depositETH("alice", v)
    \/ \E v \in 1..MaxTreasury : receive("alice", v)
    \/ \E o \in TransferOutcomes : depositToken("alice", Usdc, 1, o)
    \/ \E t \in TreasuryTokens, amt \in 1..MaxTreasury :
           scheduleProposalExecution(DAO, 1, "alice", t, amt, "0x")
    \/ \E c \in {Owner, "alice"}, id \in 1..MaxExecutions, o \in TransferOutcomes :
           treasuryExecuteProposal(c, id, o)
    \/ callReturns
    \/ \E c \in {Owner, "alice"}, t \in TreasuryTokens, amt \in 1..MaxTreasury :
           createBudgetAllocation(c, "dev", t, amt)
    \/ \E c \in {Owner, "alice"}, amt \in 1..MaxTreasury, o \in TransferOutcomes :
           spendFromBudget(c, "dev", "bob", amt, o)
    \/ treasuryAddTreasuryManager(Owner, "alice")
    \/ treasuryRemoveTreasuryManager(Owner, "alice")
    \/ toggleEmergencyMode(Owner)
    \/ \E t \in TreasuryTokens, amt \in 1..MaxTreasury, o \in TransferOutcomes :
           emergencyWithdraw(Owner, t, "carol", amt, o)

TreasurySpec == Init /\ [][TreasuryNext]_vars

\* The deployed system: transactions are sent by externally owned accounts,
\* and address(daoGovernance) is msg.sender only in the calls that the code of
\* DAOGovernance makes (burnFrom, getVotingPower, to.transfer); none of them
\* is a call of a DAOTreasury function.  A transaction that reverts leaves
\* the state as it was.
scheduleProposalExecutionCall(caller, proposalId, recipient, token, amount, data) ==
    IF scheduleProposalExecutionRevert(caller, proposalId, recipient, token, amount) = NoRevert
    THEN scheduleProposalExecution(caller, proposalId, recipient, token, amount, data)
    ELSE UNCHANGED vars

treasuryExecuteProposalCall(caller, executionId, outcome) ==
    IF treasuryExecuteProposalRevert(caller, executionId, outcome) = NoRevert
    THEN treasuryExecuteProposal(caller, executionId, outcome)
    ELSE UNCHANGED vars

SystemNext ==
    \/ TickUntil(StartTime + 2)
    \/ updateVotingConfig(Owner, ZeroConfig)
    \/ propose("alice", "T", "Qm")
    \/ executeProposal(Owner, 1)
    \/ cancelProposal("alice", 1)
    \/ \E v \in 1..MaxTreasury : depositETH("alice", v)
    \/ treasuryAddTreasuryManager(Owner, "alice")
    \/ toggleEmergencyMode(Owner)
    \/ \E c \in Callers, amt \in 1..MaxTreasury :
           scheduleProposalExecutionCall(c, 1, "bob", ETH, amt, "0x")
    \/ \E c \in Callers, id \in 1..MaxExecutions, o \in TransferOutcomes :
           treasuryExecuteProposalCall(c, id, o)

SystemSpec == Init /\ [][SystemNext]_vars

\* the system keeps processing the transactions that are sent to it
SystemFairSpec == SystemSpec /\ WF_vars(SystemNext)

\* The documented Alice, Bob and Carol scenario under the default
\* configuration: the tokens of the test's setup, every holder self-delegated.
ScenarioTicks == 8 * Day + 2

ScenarioInit ==
    /\ now = StartTime
    /\ balanceOf = [a \in Address |->
           CASE a = Owner   -> INITIAL_SUPPLY
             [] a = "alice" -> 10000 * Ether
             [] a = "bob"   -> 5000 * Ether
             [] a = "carol" -> 3000 * Ether]
    /\ allowance = [a \in Address |-> 0]
    /\ delegates = [a \in Address |-> IF a = Owner THEN Null ELSE a]
    /\ votingConfig = DefaultConfig
    /\ proposalCount = 0
    /\ proposals = <<>>
    /\ lastProposalTime = [a \in Address |-> 0]
    /\ delegatedTo = [a \in Address |-> Null]
    /\ delegatedVotes = [a \in Address |-> 0]
    /\ paused = FALSE
    /\ tokenBalances = [t \in TreasuryTokens |-> NoTokenBalance]
    /\ supportedTokens = <<ETH>>
    /\ proposalExecutions = <<>>
    /\ totalProposalExecutions = 0
    /\ budgetAllocations = [c \in Categories |-> NoBudget]
    /\ budgetCategories = <<>>
    /\ treasuryManagers = {}
    /\ emergencyManagers = {}
    /\ emergencyMode = FALSE
    /\ held = [t \in TreasuryTokens |-> 0]
    /\ callInProgress = 0
    /\ libraryCall = NoLibraryCall(<<0, 0, 0>>)

ScenarioNext ==
    \/ TickUntil(StartTime + ScenarioTicks)
    \/ propose("alice", "Fund Open Source Library Development", "QmProposalMetadata")
    \/ approve("bob", 16 * Ether)
    \/ vote("bob", 1, 4)
    \/ delegateVotes("carol", "bob")

ScenarioSpec == ScenarioInit /\ [][ScenarioNext]_vars

\* Proposal creation: several proposals by the owner and by a token holder,
\* under every configuration the owner may set, with cancellation.
Proposers == {Owner, "alice"}

ProposalNext ==
    \/ TickUntil(StartTime + 2 * Day)
    \/ mint(Owner, "alice", 4 * Ether)
    \/ \E a \in Proposers : tokenDelegate(a, a)
    \/ \E c \in ConfigChoices : updateVotingConfig(Owner, c)
    \/ \E a \in Proposers : proposeUpTo(MaxProposalsCreated, a, "T", "Qm")
    \/ \E a \in Callers, p \in 1..MaxProposalsCreated : cancelProposal(a, p)

ProposalSpec == Init /\ [][ProposalNext]_vars

\* The VotingMechanisms library: each function applied to arguments drawn
\* from the small values and from the values around the integer limits.
LibraryInputs ==
    (0..MaxLibraryInput) \cup {Uint128Max, Uint128Max + 1, UintMax \div 100,
                               UintMax \div 100 + 1, UintMax}

LibraryInit ==
    /\ now = StartTime
    /\ balanceOf = [a \in Address |-> IF a = Owner THEN INITIAL_SUPPLY ELSE 0]
    /\ allowance = [a \in Address |-> 0]
    /\ delegates = [a \in Address |-> Null]
    /\ votingConfig = DefaultConfig
    /\ proposalCount = 0
    /\ proposals = <<>>
    /\ lastProposalTime = [a \in Address |-> 0]
    /\ delegatedTo = [a \in Address |-> Null]
    /\ delegatedVotes = [a \in Address |-> 0]
    /\ paused = FALSE
    /\ tokenBalances = [t \in TreasuryTokens |-> NoTokenBalance]
    /\ supportedTokens = <<ETH>>
    /\ proposalExecutions = <<>>
    /\ totalProposalExecutions = 0
    /\ budgetAllocations = [c \in Categories |-> NoBudget]
    /\ budgetCategories = <<>>
    /\ treasuryManagers = {}
    /\ emergencyManagers = {}
    /\ emergencyMode = FALSE
    /\ held = [t \in TreasuryTokens |-> 0]
    /\ callInProgress = 0
    /\ \E a \in LibraryInputs, b \in LibraryInputs, c \in LibraryInputs :
           libraryCall = NoLibraryCall(<<a, b, c>>)

LibraryNext ==
    \/ callCalculateQuadraticCost
    \/ callCalculateSybilResistanceScore
    \/ callValidateVote
    \/ callCalculateOptimalVotes

LibrarySpec == LibraryInit /\ [][LibraryNext]_vars

\* Pausing: the owner pauses and unpauses the governance while a token holder
\* proposes, votes, delegates and revokes, and proposals are cancelled and
\* executed.
PauseNext ==
    \/ TickUntil(StartTime + 3)
    \/ mint(Owner, "alice", 4 * Ether)
    \/ tokenDelegate("alice", "alice")
    \/ approve("alice", 4 * Ether)
    \/ \E c \in ConfigChoices : updateVotingConfig(Owner, c)
    \/ pause(Owner)
    \/ unpause(Owner)
    \/ propose("alice", "T", "Qm")
    \/ \E v \in 0..MaxVotesTried : vote("alice", 1, v)
    \/ \E d \in {Owner, "bob"} : delegateVotes("alice", d)
    \/ revokeDelegation("alice")
    \/ executeProposal(Owner, 1)
    \/ \E a \in {Owner, "alice"} : cancelProposal(a, 1)

PauseSpec == Init /\ [][PauseNext]_vars

\* ================================================================== claims
ProposalIds == 1..proposalCount
VotesTried == 0..MaxVotesTried

\* C1: once an account has voted on a proposal, no later step is a vote by
\* that account on that proposal, and its recorded votes, its has-voted flag
\* and (as far as that account is concerned) the tallies stay as they are.
C1_NoDoubleVote ==
    [][\A p \in ProposalIds, a \in Address :
          proposals[p].hasVoted[a] =>
              /\ \A v \in VotesTried : ~vote(a, p, v)
              /\ proposals'[p].hasVoted[a]
              /\ proposals'[p].votes[a] = proposals[p].votes[a]]_vars

\* C1 witness: an account has voted, voting is still open, and the account
\* could pay for another vote: only the has-voted flag stops it.
C1_Witness ==
    \E p \in ProposalIds, a \in Address, v \in VotesTried :
        /\ proposals[p].hasVoted[a]
        /\ voteRevert(a, p, v) = "DAOGovernance: already voted"
        /\ availableVotes(a) >= tokensCost(v)
        /\ burnFromRevert(a, tokensCost(v)) = NoRevert

\* C2: totalVotes is the sum of the recorded votes and totalVoters the number
\* of accounts whose has-voted flag is set, for every proposal.
C2_TallyMatchesLedger ==
    \A p \in ProposalIds :
        /\ proposals[p].totalVotes = SumOver(proposals[p].votes, Address)
        /\ proposals[p].totalVoters =
               Cardinality({a \in Address : proposals[p].hasVoted[a]})

\* C2 witness: two accounts have voted different amounts on one proposal.
C2_Witness ==
    \E p \in ProposalIds, a, b \in Address :
        /\ proposals[p].hasVoted[a] /\ proposals[p].hasVoted[b]
        /\ proposals[p].votes[a] = 1 /\ proposals[p].votes[b] = 2
        /\ proposals[p].totalVotes = 3

\* C3: for every asset, balance = allocated + available.
C3_TreasuryBalanced ==
    \A t \in TreasuryTokens :
        tokenBalances[t].balance = tokenBalances[t].allocated + tokenBalances[t].available

\* C3 witness: an execution has been paid out, a budget has been spent from,
\* funds remain allocated and the treasury is in emergency mode.
C3_Witness ==
    /\ \E id \in 1..totalProposalExecutions : proposalExecutions[id].executed
    /\ \E c \in Categories : budgetAllocations[c].spentAmount > 0
    /\ \E t \in TreasuryTokens : tokenBalances[t].allocated > 0
    /\ emergencyMode

\* C4 (as claimed): the effective power of all accounts, i.e. what each can
\* bring to the power check of vote(), sums to the ledger power of all accounts.
C4_DelegationConserves ==
    SumOver([a \in Address |-> availableVotes(a)], Address)
        = SumOver([a \in Address |-> getVotingPower(a)], Address)

\* C5 (as claimed): an account with an outgoing delegation never casts a vote
\* that the power delegated to it does not cover.
C5_DelegatorCannotVoteOnOwnPower ==
    [][\A a \in Address, p \in ProposalIds, v \in VotesTried :
          (delegatedTo[a] # Null /\ delegatedVotes[a] < tokensCost(v))
              => ~vote(a, p, v)]_vars

\* delegatedTo and delegatedVotes after a successful delegateVotes(from, to)
delegatedToThen(from, to) == delegatedToAfterDelegate(delegatedTo, from, to)
delegatedVotesThen(from, to) ==
    delegatedVotesAfterDelegate(delegatedTo, delegatedVotes, from, to,
                                getVotingPower(from))

\* the revokeDelegation that follows it does not revert
revokeFollows(from, to) ==
    revokeDelegationRevertIn(delegatedToThen(from, to), delegatedVotesThen(from, to),
                             paused, from, getVotingPower(from)) = NoRevert

\* effective power of x after delegateVotes(from, to) and then revokeDelegation()
powerAfterRoundTrip(from, to, x) ==
    getVotingPower(x) +
        delegatedVotesAfterRevoke(delegatedToThen(from, to), delegatedVotesThen(from, to),
                                  from, getVotingPower(from))[x]

\* C6 (as claimed): from any state, delegate(A, B) followed by revoke(A) gives
\* A and B the effective power they had before the delegate call.
C6_RoundTripFromAnyState ==
    \A A, B \in Callers :
        (A # B /\ delegateVotesRevert(A, B) = NoRevert) =>
            /\ revokeFollows(A, B)
            /\ powerAfterRoundTrip(A, B, A) = availableVotes(A)
            /\ powerAfterRoundTrip(A, B, B) = availableVotes(B)

\* C6 (amended): the same, from the states in which A does not already
\* delegate to B.
C6_RoundTrip ==
    \A A, B \in Callers :
        (A # B /\ delegatedTo[A] # B /\ delegateVotesRevert(A, B) = NoRevert) =>
            /\ revokeFollows(A, B)
            /\ powerAfterRoundTrip(A, B, A) = availableVotes(A)
            /\ powerAfterRoundTrip(A, B, B) = availableVotes(B)

\* C6 witness: an account with ledger power delegates to a third account and
\* can move its delegation to B, which already holds delegated power.
C6_Witness ==
    \E A, B \in Callers :
        /\ A # B /\ delegatedTo[A] \notin {Null, B}
        /\ getVotingPower(A) > 0
        /\ delegatedVotes[B] > 0
        /\ delegateVotesRevert(A, B) = NoRevert

\* C7: executed and cancelled are permanent, and never both true.
C7_FlagsPermanentAndExclusive ==
    [][\A p \in ProposalIds :
          /\ proposals[p].executed => proposals'[p].executed
          /\ proposals[p].cancelled => proposals'[p].cancelled
          /\ ~(proposals'[p].executed /\ proposals'[p].cancelled)]_vars

\* C7 witness: an executed proposal that its proposer tries to cancel.
C7_Witness ==
    \E p \in ProposalIds :
        /\ proposals[p].executed
        /\ cancelProposalRevert(proposals[p].proposer, p)
               = "DAOGovernance: cannot cancel executed proposal"

\* C8 (as claimed): a proposal becomes cancelled only while now <= end and it
\* is not executed.
C8_CancelOnlyWhilePendingOrActive ==
    [][\A p \in ProposalIds :
          (~proposals[p].cancelled /\ proposals'[p].cancelled) =>
              (now <= proposals[p].endTime /\ ~proposals[p].executed)]_vars

\* C9: a proposal becomes executed only by the owner's executeProposal, after
\* its end time, not cancelled, with totalVotes at least the quorum threshold
\* then in force; and a closed, open-flagged proposal below the quorum makes
\* the owner's call fail with "quorum not met".
C9_FinalizeGuards ==
    [][\A p \in ProposalIds :
          /\ (~proposals[p].executed /\ proposals'[p].executed) =>
                 /\ executeProposal(Owner, p)
                 /\ now > proposals[p].endTime
                 /\ ~proposals[p].cancelled
                 /\ proposals[p].totalVotes >= votingConfig.quorumThreshold
          /\ \A c \in Callers \ {Owner} : ~executeProposal(c, p)
          /\ (/\ now > proposals[p].endTime
              /\ ~proposals[p].executed /\ ~proposals[p].cancelled
              /\ proposals[p].totalVotes < votingConfig.quorumThreshold) =>
                 executeProposalRevert(Owner, p) = "DAOGovernance: quorum not met"]_vars

\* C9 witness: a proposal executed with votes on it, under a quorum above 0.
C9_Witness ==
    \E p \in ProposalIds :
        /\ proposals[p].executed
        /\ votingConfig.quorumThreshold > 0
        /\ proposals[p].totalVotes >= votingConfig.quorumThreshold

\* the scenario's steps are done and the voting period has elapsed
ScenarioDone ==
    /\ proposalCount = 1
    /\ proposals[1].proposer = "alice"
    /\ proposals[1].votes["bob"] = 4
    /\ delegatedTo["carol"] = "bob"
    /\ now > proposals[1].endTime

\* C10 (as documented): once the scenario is done, the owner's executeProposal
\* on the proposal succeeds.
C10_ScenarioPasses ==
    ScenarioDone => executeProposalRevert(Owner, 1) = NoRevert

\* an accepted proposal while the treasury holds funds to pay out
ProposalAccepted ==
    /\ proposalCount >= 1 /\ proposals[1].executed
    /\ tokenBalances[ETH].available > 0

\* some execution has been scheduled and paid to its recipient
TransferDone ==
    \E id \in 1..totalProposalExecutions : proposalExecutions[id].executed

\* C11 (as claimed): in the deployed system an accepted proposal leads to a
\* scheduled execution and a successful transfer to its recipient.
C11_AcceptedLeadsToTransfer == ProposalAccepted ~> TransferDone

\* In the deployed system no execution is ever scheduled.
NoExecutionScheduled == totalProposalExecutions = 0

ExecutionIds == 1..totalProposalExecutions

\* the step is a successful executeProposal(id) that moves the funds out
paysOut(id) ==
    \E c \in Address, o \in TransferOutcomes :
        /\ treasuryExecuteProposal(c, id, o)
        /\ held'[proposalExecutions[id].token]
               = held[proposalExecutions[id].token] - proposalExecutions[id].amount

\* C12: an execution whose flag is set keeps it and is never paid out again,
\* whoever calls (the recipient during its own transfer included); the flag
\* becomes true in exactly the steps that pay the execution out.
C12_OneTransferPerExecution ==
    [][\A id \in ExecutionIds :
          /\ proposalExecutions[id].executed =>
                 /\ proposalExecutions'[id].executed
                 /\ ~paysOut(id)
                 /\ \A c \in Address, o \in TransferOutcomes :
                        ~treasuryExecuteProposal(c, id, o)
          /\ ~proposalExecutions[id].executed =>
                 (proposalExecutions'[id].executed <=> paysOut(id))]_vars

\* C12 witness: the ETH call of an executed execution is running, its
\* recipient is a treasury manager and calls executeProposal again, on this
\* id and on another one that is still to be paid.
C12_Witness ==
    /\ callInProgress # 0
    /\ proposalExecutions[callInProgress].executed
    /\ isTreasuryManager(proposalExecutions[callInProgress].recipient)
    /\ treasuryExecuteProposalRevert(proposalExecutions[callInProgress].recipient,
                                     callInProgress, "ok") = "ReentrancyGuard: reentrant call"
    /\ \E id \in ExecutionIds :
           /\ ~proposalExecutions[id].executed
           /\ proposalExecutedInGovernance(proposalExecutions[id].proposalId)
           /\ held[proposalExecutions[id].token] >= proposalExecutions[id].amount

\* C13: whenever executeProposal runs into a failing transfer, it returns
\* with the asset's balance, allocated and available and the execution's
\* executed flag and execution time as they were before the call (or reverts),
\* and the same call with a transfer that goes through is accepted.
C13_FailedTransferRestores ==
    \A c \in Address, id \in ExecutionIds, o \in TransferOutcomes :
        LET e == proposalExecutions[id]
            revert == treasuryExecuteProposalRevert(c, id, o)
        IN (/\ revert \in {NoRevert, "SafeERC20: transfer failed"}
            /\ ~transferSuccess(e.token, e.amount, o)) =>
               /\ revert = NoRevert =>
                      /\ tokenBalancesAfterExecute(id, o) = tokenBalances
                      /\ proposalExecutionsAfterExecute(id, o) = proposalExecutions
               /\ ~e.executed /\ e.executionTime = 0
               /\ held[e.token] >= e.amount =>
                      /\ treasuryExecuteProposalRevert(c, id, "ok") = NoRevert
                      /\ proposalExecutionsAfterExecute(id, "ok")[id].executed

\* C13 witness: an ETH execution whose call can fail and a token execution
\* whose transfer can come back without having moved the amount.
C13_Witness ==
    \E i, j \in ExecutionIds :
        /\ proposalExecutions[i].token = ETH
        /\ treasuryExecuteProposalRevert(Owner, i, "fail") = NoRevert
        /\ proposalExecutions[j].token = Usdc
        /\ treasuryExecuteProposalRevert(Owner, j, "mismatch") = NoRevert
        /\ tokenBalances[ETH].available > 0

\* C14: executeProposal is refused unless the proposal of the execution exists
\* and is executed in DAOGovernance, and every executed execution refers to a
\* proposal that is executed and not cancelled.
C14_ExecutedOnlyIfAccepted ==
    \A id \in ExecutionIds :
        LET pid == proposalExecutions[id].proposalId
            accepted == proposalExists(pid) /\ proposals[pid].executed
        IN /\ ~accepted =>
                  \A c \in Address, o \in TransferOutcomes :
                      treasuryExecuteProposalRevert(c, id, o) # NoRevert
           /\ proposalExecutions[id].executed =>
                  accepted /\ ~proposals[pid].cancelled

\* C14 witness: a funded execution whose proposal exists but was cancelled;
\* the owner's executeProposal is refused for that reason alone.
C14_Witness ==
    \E id \in ExecutionIds :
        LET pid == proposalExecutions[id].proposalId
        IN /\ proposalExists(pid) /\ proposals[pid].cancelled
           /\ held[proposalExecutions[id].token] >= proposalExecutions[id].amount
           /\ treasuryExecuteProposalRevert(Owner, id, "ok")
                  = "DAOTreasury: proposal not executed in governance"

\* C15 (as claimed): an execution record is created only for a proposal that
\* exists and is executed (accepted), not cancelled, in DAOGovernance.
C15_ScheduleOnlyIfAccepted ==
    [][totalProposalExecutions' > totalProposalExecutions =>
          LET pid == proposalExecutions'[totalProposalExecutions'].proposalId
          IN /\ proposalExists(pid)
             /\ proposals[pid].executed
             /\ ~proposals[pid].cancelled]_vars

Recipients == {"alice", Null}
AmountsTried == 0..(MaxTreasury + 1)

\* C16: scheduleProposalExecution with amount 0, a null recipient or an amount
\* above the asset's available funds is refused (for the last, with
\* "insufficient available funds" when nothing else is wrong); a successful call
\* moves exactly amount from available to allocated, leaves balance and the
\* other asset alone, and appends the record with the next id, counted from
\* 1, with executed = false.
C16_ScheduleValidatesAndAllocates ==
    [][\A r \in Recipients, t \in TreasuryTokens, amt \in AmountsTried :
          /\ (amt = 0 \/ r = Null \/ amt > tokenBalances[t].available) =>
                 /\ scheduleProposalExecutionRevert(DAO, 1, r, t, amt) # NoRevert
                 /\ ~scheduleProposalExecution(DAO, 1, r, t, amt, "0x")
          /\ (/\ amt > tokenBalances[t].available /\ amt > 0 /\ r # Null
              /\ tokenSupported(t) /\ ~emergencyMode) =>
                 scheduleProposalExecutionRevert(DAO, 1, r, t, amt)
                     = "DAOTreasury: insufficient available funds"
          /\ scheduleProposalExecution(DAO, 1, r, t, amt, "0x") =>
                 /\ tokenBalances'[t].balance = tokenBalances[t].balance
                 /\ tokenBalances'[t].allocated = tokenBalances[t].allocated + amt
                 /\ tokenBalances'[t].available = tokenBalances[t].available - amt
                 /\ \A u \in TreasuryTokens \ {t} : tokenBalances'[u] = tokenBalances[u]
                 /\ totalProposalExecutions' = totalProposalExecutions + 1
                 /\ Len(proposalExecutions') = totalProposalExecutions'
                 /\ Len(proposalExecutions) = totalProposalExecutions
                 /\ SubSeq(proposalExecutions', 1, totalProposalExecutions) = proposalExecutions
                 /\ proposalExecutions'[totalProposalExecutions'] =
                        [proposalId |-> 1, recipient |-> r, token |-> t, amount |-> amt,
                         data |-> "0x", executed |-> FALSE, executionTime |-> 0]]_vars

\* C16 witness: after a successful schedule some funds are allocated, some
\* are still available, and a request for more than is available is refused.
C16_Witness ==
    /\ totalProposalExecutions >= 1
    /\ tokenBalances[ETH].allocated > 0
    /\ tokenBalances[ETH].available > 0
    /\ scheduleProposalExecutionRevert(DAO, 1, "alice", ETH, tokenBalances[ETH].available + 1)
           = "DAOTreasury: insufficient available funds"
    /\ scheduleProposalExecutionRevert(DAO, 1, "alice", ETH, tokenBalances[ETH].available)
           = NoRevert

\* C17 (as claimed): a spendFromBudget whose external transfer fails leaves the
\* budget's spentAmount and remainingBudget and the asset's balance and
\* allocated as they were.
C17_FailedSpendRestores ==
    [][\A c \in Address, cat \in Categories, amt \in AmountsTried,
         o \in TransferOutcomes \ {"ok"} :
          spendFromBudget(c, cat, "bob", amt, o) =>
              /\ budgetAllocations' = budgetAllocations
              /\ tokenBalances' = tokenBalances]_vars

\* C18: totalBudget = spentAmount + remainingBudget and spentAmount never
\* exceeds totalBudget; spendFromBudget is refused on an inactive category or
\* for more than remainingBudget; a successful spend of amount moves amount
\* from remainingBudget to spentAmount, lowers the asset's balance and allocated
\* by amount and leaves available and totalBudget alone.
C18_BudgetAccounting ==
    [][\A cat \in Categories :
          LET b == budgetAllocations[cat]
              tb == tokenBalances[b.token]
          IN /\ b.totalBudget = b.spentAmount + b.remainingBudget
             /\ b.spentAmount <= b.totalBudget
             /\ budgetAllocations'[cat].totalBudget
                    = budgetAllocations'[cat].spentAmount + budgetAllocations'[cat].remainingBudget
             /\ \A c \in Address, amt \in AmountsTried, o \in TransferOutcomes :
                    /\ (~b.active \/ amt > b.remainingBudget) =>
                           /\ spendFromBudgetRevert(c, cat, "bob", amt, o) # NoRevert
                           /\ ~spendFromBudget(c, cat, "bob", amt, o)
                    /\ spendFromBudget(c, cat, "bob", amt, o) =>
                           /\ budgetAllocations'[cat].spentAmount = b.spentAmount + amt
                           /\ budgetAllocations'[cat].remainingBudget = b.remainingBudget - amt
                           /\ budgetAllocations'[cat].totalBudget = b.totalBudget
                           /\ tokenBalances'[b.token].balance = tb.balance - amt
                           /\ tokenBalances'[b.token].allocated = tb.allocated - amt
                           /\ tokenBalances'[b.token].available = tb.available]_vars

\* C18 witness: a budget partly spent, with a request above what remains refused.
C18_Witness ==
    \E cat \in Categories :
        LET b == budgetAllocations[cat]
        IN /\ b.active /\ b.spentAmount > 0 /\ b.remainingBudget > 0
           /\ held[b.token] > b.remainingBudget
           /\ spendFromBudgetRevert(Owner, cat, "bob", b.remainingBudget + 1, "ok")
                  = "DAOTreasury: insufficient budget remaining"

\* C19: createBudgetAllocation is refused for an active category and for more
\* than the asset's available funds; a successful call moves exactly amount
\* from available to allocated, leaves balance alone and makes the category
\* active with totalBudget = remainingBudget = amount and spentAmount = 0.
C19_CreateBudget ==
    [][\A c \in Address, cat \in Categories, t \in TreasuryTokens, amt \in AmountsTried :
          /\ (budgetAllocations[cat].active \/ amt > tokenBalances[t].available) =>
                 /\ createBudgetAllocationRevert(c, cat, t, amt) # NoRevert
                 /\ ~createBudgetAllocation(c, cat, t, amt)
          /\ createBudgetAllocation(c, cat, t, amt) =>
                 /\ tokenBalances'[t].balance = tokenBalances[t].balance
                 /\ tokenBalances'[t].allocated = tokenBalances[t].allocated + amt
                 /\ tokenBalances'[t].available = tokenBalances[t].available - amt
                 /\ budgetAllocations'[cat].active
                 /\ budgetAllocations'[cat].token = t
                 /\ budgetAllocations'[cat].totalBudget = amt
                 /\ budgetAllocations'[cat].remainingBudget = amt
                 /\ budgetAllocations'[cat].spentAmount = 0]_vars

\* C19 witness: an active budget, funds still available, and a second
\* createBudgetAllocation for the category refused because it exists.
C19_Witness ==
    \E cat \in Categories :
        /\ budgetAllocations[cat].active
        /\ budgetAllocations[cat].totalBudget > 0
        /\ tokenBalances[ETH].available > 0
        /\ createBudgetAllocationRevert(Owner, cat, ETH, 1)
               = "DAOTreasury: budget category already exists"

\* C20: a successful vote of v votes lowers the voter's balance by v * v
\* tokens and no other balance; a vote is refused whenever the voter's
\* getVotingPower plus the power delegated to it is below v * v tokens, with
\* "insufficient voting power" when the checks before the power check pass.
C20_QuadraticDebit ==
    [][\A a \in Address, p \in ProposalIds, v \in VotesTried :
          /\ vote(a, p, v) =>
                 /\ balanceOf'[a] = balanceOf[a] - v * v * Ether
                 /\ \A b \in Address \ {a} : balanceOf'[b] = balanceOf[b]
          /\ getVotingPower(a) + delegatedVotes[a] < v * v * Ether =>
                 /\ voteRevert(a, p, v) # NoRevert
                 /\ ~vote(a, p, v)
                 /\ (/\ votingActiveRevert(p) = NoRevert /\ ~paused
                     /\ v > 0 /\ v <= votingConfig.maxVotesPerWallet
                     /\ ~proposals[p].hasVoted[a]) =>
                        voteRevert(a, p, v) = "DAOGovernance: insufficient voting power"]_vars

\* C20 witness: one account has cast 2 votes and holds 4 tokens less than
\* the 4 it was minted, and another, with a balance and an allowance but
\* no power, is refused a single vote.
C20_Witness ==
    \E p \in ProposalIds, a, b \in Address :
        /\ proposals[p].votes[a] = 2
        /\ balanceOf[a] = 0
        /\ balanceOf[b] >= Ether /\ allowance[b] >= Ether
        /\ voteRevert(b, p, 1) = "DAOGovernance: insufficient voting power"

\* C21: a vote whose cost the voter's own balance or allowance does not cover
\* is refused, by burnFrom when the power check itself passes, and the
\* voter's has-voted flag and recorded votes and the proposal's tallies stay
\* as they are while the voter cannot pay for a single vote.
C21_FailedDebitLeavesVoteState ==
    [][\A a \in Address, p \in ProposalIds :
          /\ \A v \in VotesTried :
                 (v > 0 /\ (balanceOf[a] < v * v * Ether \/ allowance[a] < v * v * Ether)) =>
                     /\ voteRevert(a, p, v) # NoRevert
                     /\ ~vote(a, p, v)
                     /\ (/\ votingActiveRevert(p) = NoRevert /\ ~paused
                         /\ v <= votingConfig.maxVotesPerWallet
                         /\ ~proposals[p].hasVoted[a]
                         /\ availableVotes(a) >= v * v * Ether) =>
                            voteRevert(a, p, v) \in
                                {"GovernanceToken: burn amount exceeds balance",
                                 "GovernanceToken: burn amount exceeds allowance"}
          /\ (balanceOf[a] < Ether \/ allowance[a] < Ether) =>
                 /\ proposals'[p].hasVoted[a] = proposals[p].hasVoted[a]
                 /\ proposals'[p].votes[a] = proposals[p].votes[a]
                 /\ (\A b \in Address \ {a}, v \in VotesTried : ~vote(b, p, v)) =>
                        /\ proposals'[p].totalVotes = proposals[p].totalVotes
                        /\ proposals'[p].totalVoters = proposals[p].totalVoters]_vars

\* C21 witness: voting is open, the voter has not voted, has an allowance and is
\* delegated enough power for one vote, but holds no tokens: burnFrom refuses.
C21_Witness ==
    \E a \in Address, p \in ProposalIds :
        /\ delegatedVotes[a] >= Ether
        /\ allowance[a] >= Ether
        /\ balanceOf[a] = 0
        /\ voteRevert(a, p, 1) = "GovernanceToken: burn amount exceeds balance"

\* C22 (as documented): an account whose own balance is its voting power can
\* cast a vote that costs more than its balance but no more than its balance
\* plus the power delegated to it.
C22_VoteWithDelegatedTokens ==
    \A a \in Address, p \in ProposalIds, v \in VotesTried :
        (/\ votingActiveRevert(p) = NoRevert /\ ~paused
         /\ v > 0 /\ v <= votingConfig.maxVotesPerWallet
         /\ ~proposals[p].hasVoted[a]
         /\ getVotingPower(a) = balanceOf[a]
         /\ allowance[a] >= v * v * Ether
         /\ balanceOf[a] < v * v * Ether
         /\ v * v * Ether <= balanceOf[a] + delegatedVotes[a]) =>
            voteRevert(a, p, v) = NoRevert

\* C23 (as claimed): propose succeeds only if the proposer's own ledger power
\* plus the power delegated to it reaches proposalThreshold, and a proposer
\* whose own plus delegated power reaches the threshold is never refused for
\* lack of power.
C23_ThresholdOnEffectivePower ==
    \A a \in Address :
        /\ proposeRevert(a, "T", "Qm") = NoRevert =>
               getVotingPower(a) + delegatedVotes[a] >= votingConfig.proposalThreshold
        /\ getVotingPower(a) + delegatedVotes[a] >= votingConfig.proposalThreshold =>
               proposeRevert(a, "T", "Qm") # "DAOGovernance: insufficient tokens to propose"

\* C23 (amended): the threshold is compared with the proposer's own ledger
\* power alone. propose succeeds only if that power reaches proposalThreshold,
\* a proposer whose ledger power reaches it is never refused for lack of power,
\* one whose ledger power is below it is refused whatever is delegated to it,
\* and a refused propose creates no proposal.
C23_ThresholdOnLedgerPower ==
    [][\A a \in Address :
          /\ proposeRevert(a, "T", "Qm") = NoRevert =>
                 getVotingPower(a) >= votingConfig.proposalThreshold
          /\ getVotingPower(a) >= votingConfig.proposalThreshold =>
                 proposeRevert(a, "T", "Qm") # "DAOGovernance: insufficient tokens to propose"
          /\ (~paused /\ getVotingPower(a) < votingConfig.proposalThreshold) =>
                 proposeRevert(a, "T", "Qm") = "DAOGovernance: insufficient tokens to propose"
          /\ proposeRevert(a, "T", "Qm") # NoRevert =>
                 /\ ~propose(a, "T", "Qm")
                 /\ (\A b \in Address \ {a} : ~propose(b, "T", "Qm")) =>
                        (proposalCount' = proposalCount /\ Len(proposals') = Len(proposals))]_vars

\* C23 witness: a proposal exists, created by a proposer whose ledger power
\* reaches the threshold, while another account is refused although the power
\* delegated to it would reach the threshold.
C23_Witness ==
    /\ proposalCount = 1
    /\ getVotingPower(proposals[1].proposer) >= votingConfig.proposalThreshold
    /\ \E a \in Address :
           /\ getVotingPower(a) < votingConfig.proposalThreshold
           /\ getVotingPower(a) + delegatedVotes[a] >= votingConfig.proposalThreshold
           /\ proposeRevert(a, "T", "Qm") = "DAOGovernance: insufficient tokens to propose"

\* the proposals an account has created
proposalsOf(a) == {p \in ProposalIds : proposals[p].proposer = a}

\* the step creates a proposal whose proposer is a
createsProposalOf(a) ==
    /\ proposalCount' = proposalCount + 1
    /\ proposals'[proposalCount'].proposer = a

\* C24: lastProposalTime of a proposer is the time of its latest successful
\* propose and changes by nothing else, and a propose succeeds only when now
\* is at least that time plus the proposalCooldown in force at the call; so
\* two successful proposes of one proposer lie at least the cooldown apart.
\* A propose refused for the cooldown is no step: lastProposalTime and
\* proposalCount keep their values.
C24_CooldownBetweenProposals ==
    [][\A a \in Address :
          /\ createsProposalOf(a) =>
                 /\ now >= lastProposalTime[a] + votingConfig.proposalCooldown
                 /\ lastProposalTime'[a] = now
          /\ lastProposalTime'[a] # lastProposalTime[a] => createsProposalOf(a)
          /\ proposalsOf(a) # {} => lastProposalTime[a] <= now
          /\ now < lastProposalTime[a] + votingConfig.proposalCooldown =>
                 /\ proposeRevert(a, "T", "Qm") # NoRevert
                 /\ ~proposeUpTo(MaxProposalsCreated, a, "T", "Qm")
                 /\ ~createsProposalOf(a)
                 /\ lastProposalTime'[a] = lastProposalTime[a]]_vars

\* C24 witness: a proposer with two proposals is refused a third for the
\* cooldown alone.
C24_Witness ==
    \E a \in Address :
        /\ Cardinality(proposalsOf(a)) = 2
        /\ votingConfig.proposalCooldown > 0
        /\ lastProposalTime[a] >= StartTime + votingConfig.proposalCooldown
        /\ proposeRevert(a, "T", "Qm") = "DAOGovernance: proposal cooldown not met"

\* C25: proposals carry the ids 1, 2, 3, ... in creation order and
\* proposalCount is the number created; a step creates at most one proposal,
\* with id proposalCount + 1, and none while every propose would be refused;
\* an existing proposal keeps its id and proposer and is never removed.
C25_SequentialIds ==
    [][/\ Len(proposals) = proposalCount
       /\ \A p \in ProposalIds : proposals[p].id = p
       /\ proposalCount' \in {proposalCount, proposalCount + 1}
       /\ Len(proposals') = proposalCount'
       /\ \A p \in 1..proposalCount' : proposals'[p].id = p
       /\ \A p \in ProposalIds :
              /\ proposals'[p].id = proposals[p].id
              /\ proposals'[p].proposer = proposals[p].proposer
              /\ proposals'[p].startTime = proposals[p].startTime
       /\ (\A a \in Address : proposeRevert(a, "T", "Qm") # NoRevert) =>
              proposalCount' = proposalCount]_vars

\* C25 witness: three proposals exist, the second is cancelled, and the next
\* propose of some proposer is refused.
C25_Witness ==
    /\ proposalCount = 3
    /\ proposals[2].cancelled
    /\ proposals[3].id = 3
    /\ \E a \in Proposers : proposeRevert(a, "T", "Qm") # NoRevert

\* C26 (as claimed): every proposal created has start < end, whatever voting
\* delay and voting period the owner has set.
C26_StartBeforeEnd ==
    \A p \in ProposalIds : proposals[p].startTime < proposals[p].endTime

\* C27: a step is a cancel by a caller only if the caller is the proposer
\* or the owner and the proposal is neither executed nor cancelled; any other
\* caller is refused, a proposal becomes cancelled only by a cancel of its
\* proposer or of the owner, and an executed or cancelled proposal is
\* cancelled by nobody.
C27_CancelAuthorization ==
    [][\A p \in ProposalIds :
          /\ \A c \in Address :
                 /\ cancelProposal(c, p) =>
                        /\ c = proposals[p].proposer \/ c = Owner
                        /\ ~proposals[p].executed /\ ~proposals[p].cancelled
                        /\ proposals'[p].cancelled
                 /\ (c # proposals[p].proposer /\ c # Owner) =>
                        /\ cancelProposalRevert(c, p) =
                               "DAOGovernance: only proposer or owner can cancel"
                        /\ ~cancelProposal(c, p)
                 /\ (proposals[p].executed \/ proposals[p].cancelled) =>
                        cancelProposalRevert(c, p) # NoRevert
          /\ (proposals'[p].cancelled /\ ~proposals[p].cancelled) =>
                 \E c \in {proposals[p].proposer, Owner} : cancelProposal(c, p)
          /\ proposals[p].cancelled => proposals'[p] = proposals[p]]_vars

\* C27 witness: a proposal created by a token holder has been cancelled, and a
\* third account, neither proposer nor owner, is refused for lack of authority.
C27_Witness ==
    \E p \in ProposalIds :
        /\ proposals[p].proposer = "alice"
        /\ proposals[p].cancelled
        /\ cancelProposalRevert("bob", p) = "DAOGovernance: only proposer or owner can cancel"
        /\ cancelProposalRevert("alice", p) = "DAOGovernance: proposal already cancelled"

\* C28 (as claimed): when A, which delegates to B, calls delegateVotes(C) for
\* another account C, the call succeeds, A's edge points to C, what is taken
\* from B's delegated power is what is added to C's and is A's contribution
\* (so nothing is left at B when A was its only delegator), and no other
\* account's delegated power changes; repeating the delegation to B changes
\* nothing; a delegation to oneself or to the null address is refused.
C28_RedelegationMovesContribution ==
    \A A \in Callers :
        LET B == delegatedTo[A] IN
        (B # Null /\ ~paused) =>
            /\ \A C \in Callers \ {A} :
                   /\ delegateVotesRevert(A, C) = NoRevert
                   /\ delegatedToThen(A, C) = [delegatedTo EXCEPT ![A] = C]
                   /\ \A x \in Address \ {B, C} :
                          delegatedVotesThen(A, C)[x] = delegatedVotes[x]
                   /\ C # B =>
                          /\ delegatedVotesThen(A, C)[C] - delegatedVotes[C] =
                                 delegatedVotes[B] - delegatedVotesThen(A, C)[B]
                          /\ (\A x \in Address \ {A} : delegatedTo[x] # B) =>
                                 delegatedVotesThen(A, C)[B] = 0
                   /\ C = B => delegatedVotesThen(A, C) = delegatedVotes
            /\ delegateVotesRevert(A, A) = "DAOGovernance: cannot delegate to self"
            /\ delegateVotesRevert(A, Null) = "DAOGovernance: cannot delegate to zero address"

C30_VotesOnlyInWindow ==
    [][\A p \in ProposalIds :
          /\ \A a \in Address, v \in VotesTried :
                 /\ vote(a, p, v) =>
                        /\ proposals[p].startTime <= now /\ now <= proposals[p].endTime
                        /\ ~proposals[p].executed /\ ~proposals[p].cancelled
                 /\ (now > proposals[p].endTime \/ now < proposals[p].startTime
                       \/ proposals[p].cancelled \/ proposals[p].executed) =>
                        voteRevert(a, p, v) # NoRevert
          /\ (now > proposals[p].endTime \/ now < proposals[p].startTime
                \/ proposals[p].cancelled \/ proposals[p].executed) =>
                 /\ proposals'[p].totalVotes = proposals[p].totalVotes
                 /\ proposals'[p].totalVoters = proposals[p].totalVoters
                 /\ proposals'[p].votes = proposals[p].votes
                 /\ proposals'[p].hasVoted = proposals[p].hasVoted
          /\ (\E a \in Address : executeProposal(a, p)) =>
                 /\ now > proposals[p].endTime
                 /\ proposals[p].totalVotes >= votingConfig.quorumThreshold
                 /\ proposals'[p].totalVotes = proposals[p].totalVotes]_vars

\* C30 witness: votes were cast, the window has closed, and an account that has
\* not voted and could pay for a vote is refused because voting has ended.
C30_Witness ==
    \E p \in ProposalIds, a \in Address :
        /\ proposals[p].totalVotes > 0
        /\ now > proposals[p].endTime
        /\ ~proposals[p].hasVoted[a]
        /\ balanceOf[a] >= Ether /\ allowance[a] >= Ether /\ getVotingPower(a) >= Ether
        /\ voteRevert(a, p, 1) = "DAOGovernance: voting ended"

\* C31: a change of votingConfig changes no proposal, and the id, proposer,
\* start and end of a proposal never change after its creation; a step is an
\* executeProposal only if totalVotes reaches the quorumThreshold of the
\* configuration in force at that step, and a vote only if its votes are within
\* the maxVotesPerWallet in force at that step.
C31_ConfigChangeFrame ==
    [][\A p \in ProposalIds :
          /\ votingConfig' # votingConfig =>
                 (proposals' = proposals /\ proposalCount' = proposalCount)
          /\ proposals'[p].id = proposals[p].id
          /\ proposals'[p].proposer = proposals[p].proposer
          /\ proposals'[p].startTime = proposals[p].startTime
          /\ proposals'[p].endTime = proposals[p].endTime
          /\ \A a \in Address :
                 /\ executeProposal(a, p) =>
                        proposals[p].totalVotes >= votingConfig.quorumThreshold
                 /\ proposals[p].totalVotes < votingConfig.quorumThreshold =>
                        executeProposalRevert(a, p) # NoRevert
                 /\ \A v \in VotesTried :
                        /\ vote(a, p, v) => v <= votingConfig.maxVotesPerWallet
                        /\ v > votingConfig.maxVotesPerWallet =>
                               voteRevert(a, p, v) # NoRevert]_vars

\* C31 witness: a proposal created under one configuration has met the quorum
\* of that configuration, the owner has changed the configuration since, and
\* executeProposal is refused for the quorum now in force.
C31_Witness ==
    \E p \in ProposalIds :
        /\ configAtCreation(p) # votingConfig
        /\ now > proposals[p].endTime
        /\ proposals[p].totalVotes > 0
        /\ proposals[p].totalVotes >= configAtCreation(p).quorumThreshold
        /\ executeProposalRevert(Owner, p) = "DAOGovernance: quorum not met"

\* C32: calculateQuadraticCost(v) returns v * v for every v from 1 to the
\* largest vote count it accepts, a value that fits the unsigned integers,
\* and fails for v = 0 and above that count; the cost vote() computes for v
\* votes is the same number, charged in whole tokens.
C32_QuadraticCost ==
    libraryCall.fn = "calculateQuadraticCost" =>
        LET v == libraryCall.args[1] IN
        /\ v = 0 => libraryCall.revert = "VotingMechanisms: votes must be greater than 0"
        /\ v > Uint128Max => libraryCall.revert = "VotingMechanisms: votes too large"
        /\ (v > 0 /\ v <= Uint128Max) =>
               /\ libraryCall.revert = NoRevert
               /\ libraryCall.result = <<v * v>>
               /\ libraryCall.result[1] <= UintMax
               /\ voteCost(v) = libraryCall.result[1]
               /\ tokensCost(v) = libraryCall.result[1] * Ether

\* C32 witness: the cost of the largest vote count accepted has been computed.
C32_Witness ==
    /\ libraryCall.fn = "calculateQuadraticCost"
    /\ libraryCall.args[1] = Uint128Max
    /\ libraryCall.result = <<Uint128Max * Uint128Max>>

\* C33 (as claimed): calculateSybilResistanceScore never fails; it returns 0
\* without voters or without spend, and otherwise a score from 0 to 100: 100
\* when the largest spend is at most the average, 0 when it is at least twice
\* the average, and 200 minus the percentage ratio in between.
C33_SybilScore ==
    libraryCall.fn = "calculateSybilResistanceScore" =>
        LET totalVoters == libraryCall.args[1]
            totalTokensSpent == libraryCall.args[2]
            maxTokensPerVoter == libraryCall.args[3]
        IN /\ libraryCall.revert = NoRevert
           /\ (totalVoters = 0 \/ totalTokensSpent = 0) => libraryCall.result = <<0>>
           /\ (totalVoters > 0 /\ totalTokensSpent > 0) =>
                  /\ libraryCall.result[1] \in 0..100
                  /\ maxTokensPerVoter * totalVoters <= totalTokensSpent =>
                         libraryCall.result[1] = 100
                  /\ maxTokensPerVoter * totalVoters >= 2 * totalTokensSpent =>
                         libraryCall.result[1] = 0
                  /\ (/\ maxTokensPerVoter * totalVoters > totalTokensSpent
                      /\ maxTokensPerVoter * totalVoters < 2 * totalTokensSpent) =>
                         libraryCall.result[1] =
                             200 - ((maxTokensPerVoter * 100) \div
                                    (totalTokensSpent \div totalVoters))

\* C34 (as claimed): for every budget and cap calculateOptimalVotes returns
\* the smaller of the cap and the integer square root of the budget, with
\* the budget less its square, and <<0, 0>> for a budget of 0; what it returns
\* is the largest vote count validateVote accepts; validateVote accepts votes
\* exactly when 0 < votes <= cap and votes * votes <= budget.
C34_OptimalVotes ==
    /\ libraryCall.fn = "calculateOptimalVotes" =>
           LET tokenBudget == libraryCall.args[1]
               maxVotesPerWallet == libraryCall.args[2]
           IN /\ libraryCall.revert = NoRevert
              /\ tokenBudget = 0 => libraryCall.result = <<0, 0>>
              /\ tokenBudget > 0 =>
                     LET optimalVotes == libraryCall.result[1] IN
                     /\ optimalVotes <= maxVotesPerWallet
                     /\ optimalVotes * optimalVotes <= tokenBudget
                     /\ \/ optimalVotes = maxVotesPerWallet
                        \/ (optimalVotes + 1) * (optimalVotes + 1) > tokenBudget
                     /\ libraryCall.result[2] = tokenBudget - optimalVotes * optimalVotes
                     /\ \A n \in 1..Uint128Max :
                            validateVote(n, maxVotesPerWallet, tokenBudget)[1] <=>
                                n <= optimalVotes
    /\ (libraryCall.fn = "validateVote" /\ libraryCall.revert = NoRevert) =>
           LET votes == libraryCall.args[1]
               maxVotesPerWallet == libraryCall.args[2]
               tokenBalance == libraryCall.args[3]
           IN libraryCall.result[1] <=>
                  /\ 0 < votes /\ votes <= maxVotesPerWallet
                  /\ votes * votes <= tokenBalance

\* C35 (as claimed): in every state the power delegated to an account is the
\* sum of the current ledger power of the accounts that delegate to it.
C35_DelegatedIsSumOfDelegators ==
    \A x \in Address :
        delegatedVotes[x] =
            SumOver([a \in Address |-> getVotingPower(a)],
                    {a \in Address : delegatedTo[a] = x})

\* C36 (as claimed): while the governance is not paused, an account that
\* delegates can revoke its delegation and can delegate to any other account:
\* neither call reverts.
C36_CanAlwaysRevokeOrRedelegate ==
    \A a \in Callers :
        (delegatedTo[a] # Null /\ ~paused) =>
            /\ revokeDelegationRevert(a) = NoRevert
            /\ \A d \in Callers \ {a} : delegateVotesRevert(a, d) = NoRevert

\* amounts of the scheduled executions in a token that are not yet executed
pendingExecutions(token) ==
    SumOver([id \in ExecutionIds |->
                IF proposalExecutions[id].token = token /\ ~proposalExecutions[id].executed
                THEN proposalExecutions[id].amount ELSE 0],
            ExecutionIds)

\* remainingBudget of the budget categories in a token
remainingBudgets(token) ==
    SumOver([c \in Categories |->
                IF budgetAllocations[c].active /\ budgetAllocations[c].token = token
                THEN budgetAllocations[c].remainingBudget ELSE 0],
            Categories)

\* C37: for every asset, allocated is the sum of the amounts of the scheduled
\* executions not yet executed and of the remainingBudget of the budget
\* categories in that asset, balance is allocated plus available, and none
\* of the three is ever below zero.
C37_AllocatedIsPendingPlusBudgets ==
    \A t \in TreasuryTokens :
        /\ tokenBalances[t].allocated = pendingExecutions(t) + remainingBudgets(t)
        /\ tokenBalances[t].balance = tokenBalances[t].allocated + tokenBalances[t].available
        /\ tokenBalances[t].allocated >= 0
        /\ tokenBalances[t].available >= 0
        /\ tokenBalances[t].balance >= 0

\* C37 witness: one execution has been paid out, another is still scheduled,
\* and a budget has been partly spent, with funds still allocated.
C37_Witness ==
    /\ \E id \in ExecutionIds : proposalExecutions[id].executed
    /\ \E id \in ExecutionIds : ~proposalExecutions[id].executed
    /\ \E c \in Categories :
           /\ budgetAllocations[c].spentAmount > 0
           /\ budgetAllocations[c].remainingBudget > 0
    /\ \E t \in TreasuryTokens : tokenBalances[t].allocated > 1

\* C38 (as claimed): for every asset, the balance the treasury records never
\* exceeds the funds the treasury holds.
C38_RecordedBalanceIsHeld ==
    \A t \in TreasuryTokens : tokenBalances[t].balance <= held[t]

\* the step is a deposit of the asset
depositOf(token) ==
    \/ token = ETH /\ \E a \in Address, v \in 1..MaxTreasury :
                          depositETH(a, v) \/ receive(a, v)
    \/ token # ETH /\ \E a \in Address, v \in 1..MaxTreasury, o \in TransferOutcomes :
                          depositToken(a, token, v, o)

\* C39: the available amount of an asset grows only in a deposit, by what the
\* deposit adds to the balance and with allocated untouched; a scheduled
\* execution whose proposal is not executed in the governance, cancelled or
\* not, stays as it is, unexecuted, and its amount stays within allocated.
C39_AllocatedNeverReleased ==
    [][\A t \in TreasuryTokens :
          /\ tokenBalances'[t].available > tokenBalances[t].available =>
                 /\ depositOf(t)
                 /\ tokenBalances'[t].available - tokenBalances[t].available =
                        tokenBalances'[t].balance - tokenBalances[t].balance
                 /\ tokenBalances'[t].allocated = tokenBalances[t].allocated
          /\ \A id \in ExecutionIds :
                 (/\ proposalExecutions[id].token = t
                  /\ ~proposalExecutions[id].executed
                  /\ proposalExecutions[id].proposalId \in ProposalIds =>
                         ~proposals[proposalExecutions[id].proposalId].executed) =>
                     /\ proposalExecutions'[id] = proposalExecutions[id]
                     /\ tokenBalances'[t].allocated >= proposalExecutions[id].amount
                     /\ tokenBalances[t].allocated >= proposalExecutions[id].amount]_vars

\* C39 witness: an execution is scheduled for a proposal that has been
\* cancelled; its amount is allocated, nothing of the asset is available, and
\* executeProposal refuses it.
C39_Witness ==
    \E id \in ExecutionIds :
        LET execution == proposalExecutions[id] IN
        /\ execution.proposalId \in ProposalIds
        /\ proposals[execution.proposalId].cancelled
        /\ ~execution.executed
        /\ tokenBalances[execution.token].allocated >= execution.amount
        /\ tokenBalances[execution.token].available = 0
        /\ treasuryExecuteProposalRevert(Owner, id, "ok") =
               "DAOTreasury: proposal not executed in governance"

\* C40: while the governance is paused, propose, vote, delegateVotes and
\* revokeDelegation are refused, so proposalCount, the votes and tallies of
\* every proposal and the delegation graph do not change; cancelProposal and
\* executeProposal are refused or accepted as they would be without the pause,
\* and a step that is one of them sets the cancelled or the executed flag.
C40_PauseFrame ==
    [][paused =>
          /\ \A a \in Address :
                 /\ proposeRevert(a, "T", "Qm") = "Pausable: paused"
                 /\ revokeDelegationRevert(a) = "Pausable: paused"
                 /\ \A d \in Address \cup {Null} :
                        delegateVotesRevert(a, d) = "Pausable: paused"
                 /\ \A p \in ProposalIds, v \in VotesTried :
                        voteRevert(a, p, v) # NoRevert
          /\ proposalCount' = proposalCount
          /\ Len(proposals') = Len(proposals)
          /\ delegatedTo' = delegatedTo
          /\ delegatedVotes' = delegatedVotes
          /\ \A p \in ProposalIds :
                 /\ proposals'[p].totalVotes = proposals[p].totalVotes
                 /\ proposals'[p].totalVoters = proposals[p].totalVoters
                 /\ proposals'[p].votes = proposals[p].votes
                 /\ proposals'[p].hasVoted = proposals[p].hasVoted
                 /\ \A a \in Address :
                        /\ cancelProposalRevert(a, p) # "Pausable: paused"
                        /\ executeProposalRevert(a, p) # "Pausable: paused"
                        /\ cancelProposalRevert(a, p) = NoRevert <=>
                               /\ canCancel(a, p)
                               /\ ~proposals[p].executed /\ ~proposals[p].cancelled
                        /\ executeProposalRevert(a, p) = NoRevert <=>
                               /\ a = Owner /\ votingEnded(p) /\ quorumReached(p)
                               /\ ~proposals[p].executed /\ ~proposals[p].cancelled
                        /\ cancelProposal(a, p) => proposals'[p].cancelled
                        /\ executeProposal(a, p) => proposals'[p].executed]_vars

\* C40 witness: the governance is paused; a proposal with votes whose voting
\* has ended can be cancelled by its proposer and executed by the owner, while
\* its proposer, who delegates, can neither propose nor revoke.
C40_Witness ==
    \E p \in ProposalIds :
        /\ paused
        /\ proposals[p].totalVotes > 0
        /\ cancelProposalRevert(proposals[p].proposer, p) = NoRevert
        /\ executeProposalRevert(Owner, p) = NoRevert
        /\ delegatedTo[proposals[p].proposer] # Null
        /\ proposeRevert(proposals[p].proposer, "T", "Qm") = "Pausable: paused"
        /\ revokeDelegationRevert(proposals[p].proposer) = "Pausable: paused"

=============================================================================
